---- MODULE Spec2Model ----
(***************************************************************************)
(* Model of the real-time voice turn-taking pipeline of the voice          *)
(* assistant: the batch-backed StreamingSTTClient (silence detection,      *)
(* partial/final events), the WebSocket RealtimeSTTConnection, the         *)
(* streamAudio capture, and the two coordinators built on them,            *)
(* interruptibleSafeSpeak and transcribeRealtime.                          *)
(*                                                                         *)
(* One step of the model is one event-loop task of the program: an I/O or  *)
(* timer callback together with every promise continuation it schedules.   *)
(* Time is in milliseconds and advances in steps of the shortest timer of  *)
(* the program (500 ms); a timer that is due runs before time moves on.    *)
(***************************************************************************)
EXTENDS Integers, Sequences, FiniteSets, TLC

\* ------------------------------------------------------------------------
\* Bounds of the model
\* ------------------------------------------------------------------------
MaxChunks == 2
MaxTime == 1000
MaxFinalizeCalls == 1
MaxRequests == 2
MaxMessages == 2
MaxCalls == 2
MaxIterations == 3
MaxStreamChunks == 2
MaxErrorEvents == 1
MaxWireMessages == 2
MaxStarts == 3
MaxPlaybacks == 4
MaxReads == 3
MaxReadLen == 5

\* ------------------------------------------------------------------------
\* Program constants
\* ------------------------------------------------------------------------
\* setTimeout(..., 500) of the partial timer
PartialDelay == 500
\* silenceMs = 1000, handed to setSilenceTimeout by streamTranscribe
SilenceMs == 1000
\* combinedBuffer.length < 32000
PartialMinBytes == 32000
\* speechEnergyThreshold
SpeechEnergyThreshold == 800
\* trimmed.length > 2
MinInterruptLen == 2
\* StreamRecorder: chunkSizeMs, the length of a chunk in ms
ChunkSizeMs == 40

None == -1
Null == "null"

VARIABLES
    \* ---- StreamingSTTClient
    now,            \* Date.now()
    isConnected,    \* StreamingSTTClient.isConnected
    audioBuffer,    \* StreamingSTTClient.audioBuffer: the chunks since the last clear
    lastSpeechTime,
    silenceTimeout, \* deadline of the pending silence timer, or None
    partialTimeout, \* deadline of the pending partial timer, or None
    minSilenceMs,
    inflight,       \* transcribeBatch requests awaiting their response
    events,         \* the 'partial' / 'final' / 'error' events emitted, in order
    chunkCount,     \* chunks passed to sendAudioChunk so far
    requestCount,   \* transcribeBatch requests issued so far
    spoke,          \* a chunk was classified as speech since connect()
    lastDone,       \* the backend's answer to the request completed last
    finalizeCalls,  \* calls of finalize() so far
    \* ---- RealtimeSTTConnection and streamAudio
    conn,           \* the RealtimeSTTConnection and its WebSocket
    cap,            \* the ffmpeg capture process spawned by streamAudio
    \* ---- interruptibleSafeSpeak / transcribeRealtime and its chat turn
    pc,             \* where the running function is
    sttConnection,  \* the function's reference to the connection, or Null
    audioCleanup,   \* the function's reference to streamAudio's cleanup, or Null
    resolved,
    aborted,        \* abortController.signal.aborted
    tts,            \* the playback child process of speakWithOSTTS
    outcome,        \* what the function returned
    resolveCalls,   \* calls of resolveInterrupt so far
    cleanupCalls,   \* calls of streamAudio's cleanup function so far
    chunkEvents,    \* 'data' events of the capture process so far
    msgCount,       \* transcript and error events delivered by the socket so far
    lastCallback,   \* the callback that ran last, and whether resolved was set before it
    decidedBy,      \* the callback that set resolved
    maxRecordingTime,   \* transcribeRealtime's 8 s timer is pending
    timeoutHandle,      \* transcribeRealtime's per-chunk silence timer is pending
    batchRuns,      \* batch fallbacks (recordAudio then transcribe) started in the turn
    \* ---- objects torn down directly
    rec,            \* a StreamRecorder and its ffmpeg process
    scribe,         \* a RealtimeScribeClient and its WebSocket
    \* ---- the session loops and the calls they make
    chat,           \* chatMode: the loop's variables between two iterations
    st,             \* streamTranscribe: one call and its recorder and client
    wire,           \* what the WebSocket clients handed on of the messages received
    old,            \* the older chatMode: its variables between two iterations
    \* ---- subprocesses and byte streams
    mic,            \* the capture subprocesses of a session
    play,           \* the playback subprocesses of a session
    slicer,         \* StreamRecorder's stdout handler: reads in, chunks out
    \* ---- single calls
    listen,         \* listenMode: the confirmation step of one turn
    finReturn,      \* StreamingSTTClient.finalize(): how the last call went on
    vad,            \* StreamingSTTClient.isSpeech: its threshold and its last call
    link,           \* a WebSocket client, its sockets and its connect() promises
    ask             \* getConfirmation: one call, its listeners and its promise

sttVars == <<now, isConnected, audioBuffer, lastSpeechTime,
             silenceTimeout, partialTimeout, minSilenceMs, inflight, events,
             chunkCount, requestCount, spoke, lastDone, finalizeCalls>>

coordVars == <<cap, pc, sttConnection, audioCleanup, resolved, aborted, tts,
               outcome, resolveCalls, cleanupCalls, chunkEvents, msgCount,
               lastCallback, decidedBy, maxRecordingTime, timeoutHandle, batchRuns>>

tdVars == <<rec, scribe>>

lastVars == <<listen, finReturn, vad, link, ask>>
moreVars == <<mic, play, slicer, lastVars>>
extVars == <<chat, st, wire, old, moreVars>>
baseVars == <<sttVars, conn, coordVars, tdVars>>

vars == <<sttVars, conn, coordVars, tdVars, extVars>>

\* ------------------------------------------------------------------------
\* Strings are sequences of characters; " " is whitespace
\* ------------------------------------------------------------------------
RECURSIVE TrimLeft(_)
TrimLeft(s) ==
    IF s = <<>> THEN s
    ELSE IF Head(s) = " " THEN TrimLeft(Tail(s)) ELSE s

RECURSIVE TrimRight(_)
TrimRight(s) ==
    IF s = <<>> THEN s
    ELSE IF s[Len(s)] = " " THEN TrimRight(SubSeq(s, 1, Len(s) - 1)) ELSE s

\* String.prototype.trim
Trim(s) == TrimRight(TrimLeft(s))

\* ------------------------------------------------------------------------
\* StreamingSTTClient
\* ------------------------------------------------------------------------
\* A chunk of len bytes of PCM16 whose samples all have amplitude amp
ChunkLens == {16000}
ChunkAmps == {0, 800, 2000}
Chunks == [len : ChunkLens, amp : ChunkAmps]

\* sqrt(sum of amp^2 / sampleCount) of equal samples is amp
calculateChunkEnergy(chunk) ==
    IF chunk.len < 2 THEN 0 ELSE chunk.amp

isSpeech(chunk) == calculateChunkEnergy(chunk) > SpeechEnergyThreshold

RECURSIVE ByteLength(_)
ByteLength(buf) ==
    IF buf = <<>> THEN 0 ELSE Head(buf).len + ByteLength(Tail(buf))

\* The backend's HTTP responses: not ok, or a JSON body of one of three shapes
BackendTexts == { <<>>, <<" ">>, <<"h", "i", " ">> }
Responses ==
    [ok : {TRUE}, form : {"text", "channel"}, val : BackendTexts]
    \cup {[ok |-> TRUE, form |-> "none", val |-> <<>>],
          [ok |-> FALSE, form |-> "none", val |-> <<>>]}

\* transcribeBatch's result for an ok response
transcribeBatch(resp) ==
    IF resp.form = "text" THEN Trim(resp.val)
    ELSE IF resp.form = "channel" /\ resp.val # <<>> THEN Trim(resp.val)
    ELSE <<>>

\* sendAudioChunk's update of lastSpeechTime at time t
SpeechTimeAfter_everyChunk(hasSpeech, t) == t

SpeechTimeAfter(hasSpeech, t) ==
    IF hasSpeech THEN t ELSE lastSpeechTime

\* checkSilenceAfterNoise's condition, evaluated at time t on buffer buf
ShouldFinalizeAfterNoise(t, buf) ==
    /\ t - lastSpeechTime >= minSilenceMs
    /\ Len(buf) > 0
    /\ isConnected

\* processBufferedAudio up to its await: the request it issues, if any
NeedsRequest(isFinal, buf) ==
    /\ Len(buf) > 0
    /\ (isFinal \/ ByteLength(buf) >= PartialMinBytes)

NewRequest(isFinal, buf) ==
    [rid |-> requestCount + 1, isFinal |-> isFinal, audio |-> buf]

\* processBufferedAudio after its await: the events it emits
TranscriptEvent(type, isFinal, text, audio) ==
    [type |-> type, isFinal |-> isFinal, text |-> text, audio |-> audio]

EmitFor_dropEmpty(isFinal, result, audio) ==
    IF Trim(result) # <<>>
    THEN << TranscriptEvent(IF isFinal THEN "final" ELSE "partial",
                            isFinal, result, audio) >>
    ELSE << >>

EmitFor(isFinal, result, audio) ==
    IF isFinal
    THEN << TranscriptEvent("final", TRUE, result, audio) >>
    ELSE IF Trim(result) # <<>>
         THEN << TranscriptEvent("partial", FALSE, result, audio) >>
         ELSE << >>

NoDone == [ok |-> FALSE, text |-> <<>>]

SttInit ==
    /\ now = 0
    /\ isConnected = FALSE
    /\ audioBuffer = <<>>
    /\ lastSpeechTime = 0
    /\ silenceTimeout = None
    /\ partialTimeout = None
    /\ minSilenceMs = SilenceMs
    /\ inflight = {}
    /\ events = <<>>
    /\ chunkCount = 0
    /\ requestCount = 0
    /\ spoke = FALSE
    /\ lastDone = NoDone
    /\ finalizeCalls = 0

\* connect()
Connect ==
    /\ ~isConnected
    /\ isConnected' = TRUE
    /\ audioBuffer' = <<>>
    /\ lastSpeechTime' = now
    /\ spoke' = FALSE
    /\ UNCHANGED <<now, silenceTimeout, partialTimeout, minSilenceMs, inflight,
                   events, chunkCount, requestCount, lastDone, finalizeCalls>>
    /\ UNCHANGED <<conn, coordVars, tdVars, extVars>>

\* sendAudioChunk(chunk), with checkSilence / checkSilenceAfterNoise
SendAudioChunk(chunk) ==
    LET hasSpeech == isSpeech(chunk)
        buf == Append(audioBuffer,
                      [id |-> chunkCount + 1, len |-> chunk.len, speech |-> hasSpeech])
        fin == ~hasSpeech /\ ShouldFinalizeAfterNoise(now, buf)
    IN  /\ isConnected
        /\ chunkCount < MaxChunks
        /\ fin => requestCount < MaxRequests
        /\ audioBuffer' = buf
        /\ chunkCount' = chunkCount + 1
        /\ lastSpeechTime' = SpeechTimeAfter(hasSpeech, now)
        /\ spoke' = (spoke \/ hasSpeech)
        /\ partialTimeout' = now + PartialDelay
        /\ silenceTimeout' = IF hasSpeech THEN now + minSilenceMs
                             ELSE IF fin THEN None ELSE silenceTimeout
        /\ IF fin
           THEN /\ inflight' = inflight \cup {NewRequest(TRUE, buf)}
                /\ requestCount' = requestCount + 1
           ELSE UNCHANGED <<inflight, requestCount>>
        /\ UNCHANGED <<now, isConnected, minSilenceMs, events, lastDone, finalizeCalls>>
        /\ UNCHANGED <<conn, coordVars, tdVars, extVars>>

\* the partial timer's callback
PartialTimerFires ==
    LET req == audioBuffer # <<>> /\ isConnected /\ NeedsRequest(FALSE, audioBuffer)
    IN  /\ partialTimeout # None
        /\ partialTimeout <= now
        /\ req => requestCount < MaxRequests
        /\ partialTimeout' = None
        /\ IF req
           THEN /\ inflight' = inflight \cup {NewRequest(FALSE, audioBuffer)}
                /\ requestCount' = requestCount + 1
           ELSE UNCHANGED <<inflight, requestCount>>
        /\ UNCHANGED <<now, isConnected, audioBuffer, lastSpeechTime,
                       silenceTimeout, minSilenceMs, events, chunkCount, spoke,
                       lastDone, finalizeCalls>>
        /\ UNCHANGED <<conn, coordVars, tdVars, extVars>>

\* the silence timer's callback (checkSilence)
SilenceTimerFires ==
    LET req == /\ now - lastSpeechTime >= minSilenceMs
               /\ Len(audioBuffer) > 0
               /\ isConnected
    IN  /\ silenceTimeout # None
        /\ silenceTimeout <= now
        /\ req => requestCount < MaxRequests
        /\ silenceTimeout' = None
        /\ IF req
           THEN /\ inflight' = inflight \cup {NewRequest(TRUE, audioBuffer)}
                /\ requestCount' = requestCount + 1
           ELSE UNCHANGED <<inflight, requestCount>>
        /\ UNCHANGED <<now, isConnected, audioBuffer, lastSpeechTime,
                       partialTimeout, minSilenceMs, events, chunkCount, spoke,
                       lastDone, finalizeCalls>>
        /\ UNCHANGED <<conn, coordVars, tdVars, extVars>>

TimerDue(t) == t # None /\ t <= now

\* time passes, up to MaxTime; a timer that is due runs first
Tick ==
    /\ now + PartialDelay <= MaxTime
    /\ ~TimerDue(silenceTimeout)
    /\ ~TimerDue(partialTimeout)
    /\ now' = now + PartialDelay
    /\ UNCHANGED <<isConnected, audioBuffer, lastSpeechTime,
                   silenceTimeout, partialTimeout, minSilenceMs, inflight, events,
                   chunkCount, requestCount, spoke, lastDone, finalizeCalls>>
    /\ UNCHANGED <<conn, coordVars, tdVars, extVars>>

\* the time between two 'chunk' events of StreamRecorder passes; a timer
\* that is due runs first
ChunkPeriod ==
    /\ now + ChunkSizeMs <= MaxTime
    /\ ~TimerDue(silenceTimeout)
    /\ ~TimerDue(partialTimeout)
    /\ now' = now + ChunkSizeMs
    /\ UNCHANGED <<isConnected, audioBuffer, lastSpeechTime,
                   silenceTimeout, partialTimeout, minSilenceMs, inflight, events,
                   chunkCount, requestCount, spoke, lastDone, finalizeCalls>>
    /\ UNCHANGED <<conn, coordVars, tdVars, extVars>>

\* the response of a transcribeBatch request arrives: the rest of processBufferedAudio
CompleteRequest(r, resp) ==
    LET result == transcribeBatch(resp)
        out == IF resp.ok
               THEN EmitFor(r.isFinal, result, r.audio)
               ELSE << TranscriptEvent("error", r.isFinal, <<>>, r.audio) >>
        clears == resp.ok /\ (r.isFinal \/ Trim(result) # <<>>)
    IN  /\ r \in inflight
        /\ inflight' = inflight \ {r}
        /\ events' = events \o out
        /\ audioBuffer' = IF clears THEN <<>> ELSE audioBuffer
        /\ lastDone' = [ok |-> resp.ok, text |-> IF resp.ok THEN result ELSE <<>>]
        /\ UNCHANGED <<now, isConnected, lastSpeechTime,
                       silenceTimeout, partialTimeout, minSilenceMs, chunkCount,
                       requestCount, spoke, finalizeCalls>>
        /\ UNCHANGED <<conn, coordVars, tdVars, extVars>>

FinalizeReturnsAtOnce_never(buf) == FALSE

\* finalize(): if (this.audioBuffer.length === 0) return ''
FinalizeReturnsAtOnce(buf) == Len(buf) = 0

\* finalize(), up to its first await: it has returned '' ("empty"), or it
\* awaits processBufferedAudio(true) and then the 'final' event ("awaiting")
Finalize ==
    LET req == ~FinalizeReturnsAtOnce(audioBuffer) /\ NeedsRequest(TRUE, audioBuffer)
    IN  /\ finalizeCalls < MaxFinalizeCalls
        /\ req => requestCount < MaxRequests
        /\ finalizeCalls' = finalizeCalls + 1
        /\ finReturn' = IF FinalizeReturnsAtOnce(audioBuffer) THEN "empty" ELSE "awaiting"
        /\ IF req
           THEN /\ inflight' = inflight \cup {NewRequest(TRUE, audioBuffer)}
                /\ requestCount' = requestCount + 1
           ELSE UNCHANGED <<inflight, requestCount>>
        /\ UNCHANGED <<now, isConnected, audioBuffer, lastSpeechTime,
                       silenceTimeout, partialTimeout, minSilenceMs, events, chunkCount,
                       spoke, lastDone>>
        /\ UNCHANGED <<conn, coordVars, tdVars, chat, st, wire, old, mic, play, slicer,
                       listen, vad, link, ask>>

\* close()
Close ==
    /\ isConnected
    /\ silenceTimeout' = None
    /\ partialTimeout' = None
    /\ isConnected' = FALSE
    /\ audioBuffer' = <<>>
    /\ UNCHANGED <<now, lastSpeechTime, minSilenceMs, inflight,
                   events, chunkCount, requestCount, spoke, lastDone, finalizeCalls>>
    /\ UNCHANGED <<conn, coordVars, tdVars, extVars>>

SttNext ==
    \/ Connect
    \/ \E chunk \in Chunks : SendAudioChunk(chunk)
    \/ PartialTimerFires
    \/ SilenceTimerFires
    \/ Tick
    \/ \E r \in inflight, resp \in Responses : CompleteRequest(r, resp)
    \/ Finalize
    \/ Close

\* the client fed by a StreamRecorder, a chunk every 40 ms at most
PacedNext ==
    \/ Connect
    \/ \E chunk \in Chunks : SendAudioChunk(chunk)
    \/ PartialTimerFires
    \/ SilenceTimerFires
    \/ ChunkPeriod
    \/ \E r \in inflight, resp \in Responses : CompleteRequest(r, resp)

\* the client driven by sendAudioChunk alone: no manual finalize(), no close()
ChunksNext ==
    \/ Connect
    \/ \E chunk \in Chunks : SendAudioChunk(chunk)
    \/ PartialTimerFires
    \/ SilenceTimerFires
    \/ Tick
    \/ \E r \in inflight, resp \in Responses : CompleteRequest(r, resp)

\* ------------------------------------------------------------------------
\* RealtimeSTTConnection: the connection object and the one socket it opens
\* ------------------------------------------------------------------------
\* readyState "NONE": no socket was created yet
NewConnection ==
    [ws |-> Null, isConnected |-> FALSE, readyState |-> "NONE",
     closeCalls |-> 0, wsCloseCalls |-> 0, commits |-> 0, sent |-> 0]

\* connect(), up to the creation of the socket
connectStart(c) ==
    IF c.isConnected /\ c.ws # Null
    THEN c
    ELSE [c EXCEPT !.ws = "socket", !.readyState = "CONNECTING"]

\* the socket's 'open' handler
onOpen(c) == [c EXCEPT !.isConnected = TRUE, !.readyState = "OPEN"]

\* the socket's 'error' handler, before it calls config.onError; the socket
\* is closed once it has emitted 'error'
onSocketError(c) == [c EXCEPT !.isConnected = FALSE, !.readyState = "CLOSED"]

\* the socket's 'close' handler
onSocketClose(c) == [c EXCEPT !.isConnected = FALSE, !.readyState = "CLOSED"]

\* get connected()
connected(c) == c.isConnected /\ c.ws # Null /\ c.readyState = "OPEN"

\* streamAudioChunk(chunk), called on a connected connection
streamAudioChunk(c) == [c EXCEPT !.sent = @ + 1]

\* commitTranscript(), called on a connected connection
commitTranscript(c) == [c EXCEPT !.commits = @ + 1]

\* what close() leaves in this.ws
WsAfterClose_kept(c) == c.ws

WsAfterClose(c) == Null

\* close()
close(c) ==
    IF c.ws # Null
    THEN [c EXCEPT !.isConnected = FALSE,
                   !.wsCloseCalls = @ + 1,
                   !.readyState = IF @ \in {"CONNECTING", "OPEN"} THEN "CLOSING" ELSE @,
                   !.ws = WsAfterClose(c),
                   !.closeCalls = @ + 1]
    ELSE [c EXCEPT !.closeCalls = @ + 1]

\* the socket can still deliver a message / an error
CanDeliver(c) == c.readyState \in {"OPEN", "CLOSING"}
CanFail(c) == c.readyState \in {"CONNECTING", "OPEN", "CLOSING"}
SocketOpen(c) == c.readyState \in {"CONNECTING", "OPEN"}

\* ------------------------------------------------------------------------
\* streamAudio: the capture process
\* ------------------------------------------------------------------------
\* state "idle": streamAudio not called; "starting": awaiting listAudioDevices;
\* "running": ffmpeg spawned and alive; "spawnFailed": spawn gave no pid and
\* its 'error' event is pending; "failed": that event was delivered;
\* "noDevice": streamAudio threw before spawning; "dead": killed
NewCapture == [state |-> "idle", killed |-> FALSE, kills |-> 0]

spawn(k, ok) == [k EXCEPT !.state = IF ok THEN "running" ELSE "spawnFailed"]

HasPid(k) == k.state \in {"running", "dead"}

CaptureAlive(k) == k.state = "running"

\* the cleanup function streamAudio returns
cleanupFn(k) ==
    IF ~k.killed /\ HasPid(k)
    THEN [k EXCEPT !.killed = TRUE, !.kills = @ + 1, !.state = "dead"]
    ELSE k

\* the messages the socket can deliver as transcripts; "R" stands for the
\* feedback phrase "recording started"
TranscriptTexts ==
    { <<>>, <<" ", "a", "b", " ">>, <<"a", "b", "c">>, <<" ", "a", "b", "c", " ">>,
      <<"R", " ">> }

Pending == [kind |-> "pending", text |-> <<>>]
NullResult == [kind |-> "null", text |-> <<>>]
TranscriptResult(text) == [kind |-> "transcript", text |-> text]

NoCallback == [kind |-> "none", text |-> <<>>, late |-> FALSE]
Callback(kind, text) == [kind |-> kind, text |-> text, late |-> resolved]

\* ------------------------------------------------------------------------
\* interruptibleSafeSpeak, called with interruption enabled and an API key
\* ------------------------------------------------------------------------
\* the test of onTranscript
IsInterruption_noTrim(transcriptText) ==
    transcriptText # <<>> /\ Len(transcriptText) > MinInterruptLen /\ ~resolved

IsInterruption_ignoreResolved(transcriptText) ==
    LET trimmed == Trim(transcriptText)
    IN  trimmed # <<>> /\ Len(trimmed) > MinInterruptLen

IsInterruption(transcriptText) ==
    LET trimmed == Trim(transcriptText)
    IN  trimmed # <<>> /\ Len(trimmed) > MinInterruptLen /\ ~resolved

\* the value onTranscript resolves the interruption promise with
InterruptedTranscript_raw(transcriptText) == TranscriptResult(transcriptText)

InterruptedTranscript(transcriptText) == TranscriptResult(Trim(transcriptText))

\* the value the error handlers resolve the interruption promise with
ListenErrorValue_throw == [kind |-> "exception", text |-> <<>>]

ListenErrorValue == NullResult

\* abort(): the listener of speakWithOSTTS kills the child that is playing
ttsAfterAbort(t) == IF t = "playing" THEN "killed" ELSE t

speakFrame == <<sttVars, tdVars, extVars, maxRecordingTime, timeoutHandle, batchRuns>>

\* "if (audioCleanup) { audioCleanup(); audioCleanup = null; }
\*  if (sttConnection) { sttConnection.close(); sttConnection = null; }"
\* applied to the connection c and the capture k
StopListening(c, k) ==
    /\ cap' = IF audioCleanup # Null THEN cleanupFn(k) ELSE k
    /\ cleanupCalls' = IF audioCleanup # Null THEN cleanupCalls + 1 ELSE cleanupCalls
    /\ audioCleanup' = Null
    /\ conn' = IF sttConnection # Null THEN close(c) ELSE c
    /\ sttConnection' = Null

\* Promise.race settles with v and the function returns it, if it still awaits
RaceSettles(v) ==
    IF pc = "racing"
    THEN pc' = "returned" /\ outcome' = v
    ELSE UNCHANGED <<pc, outcome>>

\* the body shared by onError and streamAudio's onError, on connection c and
\* capture k
ListenError(c, k, by) ==
    IF ~resolved
    THEN /\ resolved' = TRUE
         /\ StopListening(c, k)
         /\ resolveCalls' = resolveCalls + 1
         /\ decidedBy' = by
         /\ RaceSettles(ListenErrorValue)
    ELSE /\ conn' = c
         /\ cap' = k
         /\ UNCHANGED <<resolved, cleanupCalls, audioCleanup, sttConnection,
                        resolveCalls, decidedBy, pc, outcome>>

\* the function up to Promise.race: the connection is created, connect() is
\* called and playback is started
StartSpeak ==
    /\ pc = "idle"
    /\ pc' = "racing"
    /\ sttConnection' = "conn"
    /\ conn' = connectStart(conn)
    /\ tts' = "playing"
    /\ lastCallback' = Callback("start", <<>>)
    /\ UNCHANGED <<cap, audioCleanup, resolved, aborted, outcome, resolveCalls,
                   cleanupCalls, chunkEvents, msgCount, decidedBy>>
    /\ UNCHANGED speakFrame

\* the socket opens: connect() resolves and streamAudio is called; it spawns
\* ffmpeg at once, or first looks the microphone up (lookup)
SpeakConnected(lookup, ok) ==
    /\ pc # "idle"
    /\ conn.readyState = "CONNECTING"
    /\ conn' = onOpen(conn)
    /\ IF lookup
       THEN /\ cap' = [cap EXCEPT !.state = "starting"]
            /\ UNCHANGED audioCleanup
       ELSE /\ cap' = spawn(cap, ok)
            /\ audioCleanup' = "fn"
    /\ lastCallback' = Callback("open", <<>>)
    /\ UNCHANGED <<pc, sttConnection, resolved, aborted, tts, outcome, resolveCalls,
                   cleanupCalls, chunkEvents, msgCount, decidedBy>>
    /\ UNCHANGED speakFrame

\* the microphone lookup ends: streamAudio spawns ffmpeg and its cleanup is
\* stored, or it throws and the .catch of connect() runs
SpeakStreamAudioReady(found, ok) ==
    /\ pc # "idle"
    /\ cap.state = "starting"
    /\ IF found
       THEN /\ cap' = spawn(cap, ok)
            /\ audioCleanup' = "fn"
            /\ UNCHANGED <<resolved, resolveCalls, decidedBy, pc, outcome>>
       ELSE /\ cap' = [cap EXCEPT !.state = "noDevice"]
            /\ UNCHANGED audioCleanup
            /\ IF ~resolved
               THEN /\ resolved' = TRUE
                    /\ resolveCalls' = resolveCalls + 1
                    /\ decidedBy' = "catch"
                    /\ RaceSettles(ListenErrorValue)
               ELSE UNCHANGED <<resolved, resolveCalls, decidedBy, pc, outcome>>
    /\ lastCallback' = Callback("streamAudio", <<>>)
    /\ UNCHANGED <<conn, sttConnection, aborted, tts, cleanupCalls, chunkEvents, msgCount>>
    /\ UNCHANGED speakFrame

\* onChunk
SpeakOnChunk ==
    /\ pc # "idle"
    /\ CaptureAlive(cap)
    /\ chunkEvents < MaxChunks
    /\ chunkEvents' = chunkEvents + 1
    /\ conn' = IF ~resolved /\ sttConnection # Null /\ connected(conn)
               THEN streamAudioChunk(conn)
               ELSE conn
    /\ lastCallback' = Callback("chunk", <<>>)
    /\ UNCHANGED <<cap, pc, sttConnection, audioCleanup, resolved, aborted, tts,
                   outcome, resolveCalls, cleanupCalls, msgCount, decidedBy>>
    /\ UNCHANGED speakFrame

\* a transcript message arrives: handleMessage calls onTranscript
SpeakOnTranscript(transcriptText, isFinal) ==
    /\ pc # "idle"
    /\ CanDeliver(conn)
    /\ msgCount < MaxMessages
    /\ msgCount' = msgCount + 1
    /\ lastCallback' = Callback("transcript", transcriptText)
    /\ IF IsInterruption(transcriptText)
       THEN /\ resolved' = TRUE
            /\ aborted' = TRUE
            /\ tts' = ttsAfterAbort(tts)
            /\ StopListening(conn, cap)
            /\ resolveCalls' = resolveCalls + 1
            /\ decidedBy' = "transcript"
            /\ RaceSettles(InterruptedTranscript(transcriptText))
       ELSE UNCHANGED <<conn, cap, pc, sttConnection, audioCleanup, resolved, aborted,
                        tts, outcome, resolveCalls, cleanupCalls, decidedBy>>
    /\ UNCHANGED chunkEvents
    /\ UNCHANGED speakFrame

\* the socket emits 'error', or delivers an error message: onError
SpeakOnSttError(kind) ==
    /\ pc # "idle"
    /\ IF kind = "socket" THEN CanFail(conn) ELSE CanDeliver(conn)
    /\ msgCount < MaxMessages
    /\ msgCount' = msgCount + 1
    /\ lastCallback' = Callback("sttError", <<>>)
    /\ ListenError(IF kind = "socket" THEN onSocketError(conn) ELSE conn, cap, "sttError")
    /\ UNCHANGED <<aborted, tts, chunkEvents>>
    /\ UNCHANGED speakFrame

\* ffmpeg emits 'error': streamAudio's onError
SpeakOnAudioError ==
    /\ pc # "idle"
    /\ cap.state = "spawnFailed"
    /\ lastCallback' = Callback("audioError", <<>>)
    /\ ListenError(conn, [cap EXCEPT !.state = "failed"], "audioError")
    /\ UNCHANGED <<aborted, tts, chunkEvents, msgCount>>
    /\ UNCHANGED speakFrame

\* the playback child exits: with code 0 the race settles with null and the
\* cleanup after the race runs; otherwise the catch block runs and falls back
\* to safeSpeak
SpeakTtsExit(ok) ==
    /\ tts = "playing"
    /\ tts' = IF ok THEN "done" ELSE "failed"
    /\ lastCallback' = Callback("tts", <<>>)
    /\ IF pc = "racing"
       THEN /\ IF ~resolved
               THEN /\ resolved' = TRUE
                    /\ aborted' = (aborted \/ ~ok)
                    /\ StopListening(conn, cap)
                    /\ decidedBy' = IF ok THEN "ttsDone" ELSE "ttsFailed"
               ELSE UNCHANGED <<resolved, aborted, conn, cap, cleanupCalls,
                                audioCleanup, sttConnection, decidedBy>>
            /\ IF ok
               THEN pc' = "returned" /\ outcome' = NullResult
               ELSE pc' = "fallback" /\ UNCHANGED outcome
       ELSE UNCHANGED <<resolved, aborted, conn, cap, cleanupCalls, audioCleanup,
                        sttConnection, decidedBy, pc, outcome>>
    /\ UNCHANGED <<resolveCalls, chunkEvents, msgCount>>
    /\ UNCHANGED speakFrame

\* the fallback safeSpeak ends, whatever its outcome: return null
SpeakFallbackDone ==
    /\ pc = "fallback"
    /\ pc' = "returned"
    /\ outcome' = NullResult
    /\ lastCallback' = Callback("fallback", <<>>)
    /\ UNCHANGED <<conn, cap, sttConnection, audioCleanup, resolved, aborted, tts,
                   resolveCalls, cleanupCalls, chunkEvents, msgCount, decidedBy>>
    /\ UNCHANGED speakFrame

\* the socket emits 'close': the peer closed it, or the closing handshake ended
WsClosed ==
    /\ CanDeliver(conn)
    /\ conn' = onSocketClose(conn)
    /\ UNCHANGED <<sttVars, coordVars, tdVars, extVars>>

SpeakNext ==
    \/ StartSpeak
    \/ \E lookup \in BOOLEAN, ok \in BOOLEAN : SpeakConnected(lookup, ok)
    \/ \E found \in BOOLEAN, ok \in BOOLEAN : SpeakStreamAudioReady(found, ok)
    \/ SpeakOnChunk
    \/ \E transcriptText \in TranscriptTexts, isFinal \in BOOLEAN :
           SpeakOnTranscript(transcriptText, isFinal)
    \/ \E kind \in {"socket", "message"} : SpeakOnSttError(kind)
    \/ SpeakOnAudioError
    \/ \E ok \in BOOLEAN : SpeakTtsExit(ok)
    \/ SpeakFallbackDone
    \/ WsClosed

\* ------------------------------------------------------------------------
\* transcribeRealtime, and the chat turn of chatMode that calls it
\* ------------------------------------------------------------------------
\* /^(recording (started|stopped)[\s,.-]*)+$/
OnlyFeedback(s) ==
    s # <<>> /\ Head(s) = "R" /\ \A i \in DOMAIN s : s[i] \in {"R", " "}

\* filteredText of onTranscript
filterFeedback(text) ==
    LET trimmed == Trim(text)
        stripped == IF trimmed # <<>> /\ Head(trimmed) = "R"
                    THEN TrimLeft(Tail(trimmed))
                    ELSE trimmed
    IN  Trim(IF OnlyFeedback(stripped) THEN <<>> ELSE stripped)

\* chatMode's catch around transcribeRealtime(): the batch fallback starts
CatchRealtimeFailure_rethrow(runs) ==
    [pc |-> "returned", batchRuns |-> runs, outcome |-> [kind |-> "escaped", text |-> <<>>]]

CatchRealtimeFailure(runs) ==
    [pc |-> "batch", batchRuns |-> runs + 1, outcome |-> Pending]

\* transcribeRealtime rejects
Rejected ==
    LET r == CatchRealtimeFailure(batchRuns)
    IN  /\ pc' = r.pc
        /\ batchRuns' = r.batchRuns
        /\ outcome' = r.outcome

turnFrame == <<sttVars, tdVars, extVars, sttConnection, aborted, tts, resolveCalls, lastCallback>>

\* the body shared by onError, streamAudio's onError and the .catch of
\* connect(), on connection c and capture k; the .catch does not close
TurnFail(c, k, by, closes) ==
    IF ~resolved
    THEN /\ resolved' = TRUE
         /\ timeoutHandle' = FALSE
         /\ maxRecordingTime' = FALSE
         /\ cap' = IF audioCleanup # Null THEN cleanupFn(k) ELSE k
         /\ cleanupCalls' = IF audioCleanup # Null THEN cleanupCalls + 1 ELSE cleanupCalls
         /\ audioCleanup' = Null
         /\ conn' = IF closes THEN close(c) ELSE c
         /\ decidedBy' = by
         /\ Rejected
    ELSE /\ conn' = c
         /\ cap' = k
         /\ UNCHANGED <<resolved, timeoutHandle, maxRecordingTime, cleanupCalls,
                        audioCleanup, decidedBy, pc, batchRuns, outcome>>

\* the turn reaches transcribeRealtime(): the connection is created and
\* connect() is called
StartTurn ==
    /\ pc = "idle"
    /\ pc' = "streaming"
    /\ sttConnection' = "conn"
    /\ conn' = connectStart(conn)
    /\ UNCHANGED <<cap, audioCleanup, resolved, aborted, tts, outcome, resolveCalls,
                   cleanupCalls, chunkEvents, msgCount, lastCallback, decidedBy,
                   maxRecordingTime, timeoutHandle, batchRuns>>
    /\ UNCHANGED <<sttVars, tdVars, extVars>>

\* the socket opens: the 8 s timer is set and streamAudio is called
TurnConnected(lookup, ok) ==
    /\ pc # "idle"
    /\ conn.readyState = "CONNECTING"
    /\ conn' = onOpen(conn)
    /\ maxRecordingTime' = TRUE
    /\ IF lookup
       THEN /\ cap' = [cap EXCEPT !.state = "starting"]
            /\ UNCHANGED audioCleanup
       ELSE /\ cap' = spawn(cap, ok)
            /\ audioCleanup' = "fn"
    /\ UNCHANGED <<pc, resolved, outcome, cleanupCalls, chunkEvents, msgCount,
                   decidedBy, timeoutHandle, batchRuns>>
    /\ UNCHANGED turnFrame

\* the microphone lookup ends: ffmpeg is spawned, or streamAudio throws and
\* the .catch of connect() runs
TurnStreamAudioReady(found, ok) ==
    /\ pc # "idle"
    /\ cap.state = "starting"
    /\ IF found
       THEN /\ cap' = spawn(cap, ok)
            /\ audioCleanup' = "fn"
            /\ UNCHANGED <<conn, resolved, timeoutHandle, maxRecordingTime,
                           cleanupCalls, decidedBy, pc, batchRuns, outcome>>
       ELSE TurnFail(conn, [cap EXCEPT !.state = "noDevice"], "catch", FALSE)
    /\ UNCHANGED <<chunkEvents, msgCount>>
    /\ UNCHANGED turnFrame

\* onChunk
TurnOnChunk ==
    /\ pc # "idle"
    /\ CaptureAlive(cap)
    /\ chunkEvents < MaxChunks
    /\ chunkEvents' = chunkEvents + 1
    /\ IF ~resolved /\ connected(conn)
       THEN /\ conn' = streamAudioChunk(conn)
            /\ timeoutHandle' = TRUE
       ELSE UNCHANGED <<conn, timeoutHandle>>
    /\ UNCHANGED <<cap, pc, audioCleanup, resolved, outcome, cleanupCalls, msgCount,
                   decidedBy, maxRecordingTime, batchRuns>>
    /\ UNCHANGED turnFrame

\* a transcript message arrives: onTranscript
TurnOnTranscript(text, isFinal) ==
    LET filteredText == filterFeedback(text)
    IN  /\ pc # "idle"
        /\ CanDeliver(conn)
        /\ msgCount < MaxMessages
        /\ msgCount' = msgCount + 1
        /\ IF ~resolved /\ isFinal /\ filteredText # <<>>
           THEN /\ resolved' = TRUE
                /\ timeoutHandle' = FALSE
                /\ maxRecordingTime' = FALSE
                /\ cap' = IF audioCleanup # Null THEN cleanupFn(cap) ELSE cap
                /\ cleanupCalls' = IF audioCleanup # Null THEN cleanupCalls + 1
                                   ELSE cleanupCalls
                /\ audioCleanup' = Null
                /\ conn' = close(conn)
                /\ decidedBy' = "transcript"
                /\ pc' = "returned"
                /\ outcome' = TranscriptResult(filteredText)
           ELSE UNCHANGED <<resolved, timeoutHandle, maxRecordingTime, cap,
                            cleanupCalls, audioCleanup, conn, decidedBy, pc, outcome>>
        /\ UNCHANGED <<chunkEvents, batchRuns>>
        /\ UNCHANGED turnFrame

\* the socket emits 'error', or delivers an error message: onError
TurnOnSttError(kind) ==
    /\ pc # "idle"
    /\ IF kind = "socket" THEN CanFail(conn) ELSE CanDeliver(conn)
    /\ msgCount < MaxMessages
    /\ msgCount' = msgCount + 1
    /\ TurnFail(IF kind = "socket" THEN onSocketError(conn) ELSE conn, cap,
                IF kind = "socket" /\ conn.readyState = "CONNECTING"
                THEN "connectError" ELSE "sttError",
                TRUE)
    /\ UNCHANGED chunkEvents
    /\ UNCHANGED turnFrame

\* ffmpeg emits 'error': streamAudio's onError
TurnOnAudioError ==
    /\ pc # "idle"
    /\ cap.state = "spawnFailed"
    /\ TurnFail(conn, [cap EXCEPT !.state = "failed"], "audioError", TRUE)
    /\ UNCHANGED <<chunkEvents, msgCount>>
    /\ UNCHANGED turnFrame

\* the 8 s timer or the per-chunk silence timer fires: commitTranscript
TurnTimerFires(which) ==
    /\ IF which = "max" THEN maxRecordingTime ELSE timeoutHandle
    /\ IF which = "max"
       THEN maxRecordingTime' = FALSE /\ UNCHANGED timeoutHandle
       ELSE timeoutHandle' = FALSE /\ UNCHANGED maxRecordingTime
    /\ conn' = IF ~resolved /\ connected(conn) THEN commitTranscript(conn) ELSE conn
    /\ UNCHANGED <<cap, pc, audioCleanup, resolved, outcome, cleanupCalls, chunkEvents,
                   msgCount, decidedBy, batchRuns>>
    /\ UNCHANGED turnFrame

\* the batch fallback ends: with a transcript, or with an exception that the
\* catch around the loop body handles
TurnBatchDone(ok) ==
    /\ pc = "batch"
    /\ pc' = "returned"
    /\ outcome' = [kind |-> IF ok THEN "batch" ELSE "handled", text |-> <<>>]
    /\ UNCHANGED <<conn, cap, audioCleanup, resolved, cleanupCalls, chunkEvents,
                   msgCount, decidedBy, maxRecordingTime, timeoutHandle, batchRuns>>
    /\ UNCHANGED turnFrame

TurnNext ==
    \/ StartTurn
    \/ \E lookup \in BOOLEAN, ok \in BOOLEAN : TurnConnected(lookup, ok)
    \/ \E found \in BOOLEAN, ok \in BOOLEAN : TurnStreamAudioReady(found, ok)
    \/ TurnOnChunk
    \/ \E text \in TranscriptTexts, isFinal \in BOOLEAN : TurnOnTranscript(text, isFinal)
    \/ \E kind \in {"socket", "message"} : TurnOnSttError(kind)
    \/ TurnOnAudioError
    \/ \E which \in {"max", "silence"} : TurnTimerFires(which)
    \/ \E ok \in BOOLEAN : TurnBatchDone(ok)
    \/ WsClosed

\* ------------------------------------------------------------------------
\* StreamRecorder, RealtimeSTTConnection and RealtimeScribeClient, torn down
\* by direct calls of stop() / close(); each object runs one session
\* ------------------------------------------------------------------------
NewRecorder ==
    [isRecording |-> FALSE, ffmpegProcess |-> Null, alive |-> FALSE, killed |-> FALSE,
     sigterm |-> 0, sigkill |-> 0, killTimer |-> FALSE, stopCalls |-> 0,
     started |-> FALSE]

\* StreamRecorder.start(), after initialize()
recStart(r) ==
    [r EXCEPT !.ffmpegProcess = "proc", !.alive = TRUE, !.isRecording = TRUE,
              !.started = TRUE]

\* StreamRecorder.stop()
recStop(r) ==
    IF ~r.isRecording \/ r.ffmpegProcess = Null
    THEN [r EXCEPT !.stopCalls = @ + 1]
    ELSE [r EXCEPT !.isRecording = FALSE,
                   !.sigterm = @ + 1,
                   !.killed = TRUE,
                   !.killTimer = TRUE,
                   !.ffmpegProcess = Null,
                   !.stopCalls = @ + 1]

\* the 'exit' handler of the ffmpeg process
recExit(r) == [r EXCEPT !.alive = FALSE, !.isRecording = FALSE]

\* the callback of stop()'s 500 ms timer
recKillTimer(r) ==
    [r EXCEPT !.killTimer = FALSE,
              !.sigkill = IF r.ffmpegProcess # Null /\ ~r.killed THEN @ + 1 ELSE @]

NewScribe ==
    [ws |-> Null, readyState |-> "NONE", wsCloseCalls |-> 0, commits |-> 0,
     closeCalls |-> 0, closeWaits |-> 0, closeTimers |-> 0]

\* RealtimeScribeClient.connect(), up to the creation of the socket
scribeConnect(s) ==
    IF s.ws # Null THEN s ELSE [s EXCEPT !.ws = "socket", !.readyState = "CONNECTING"]

\* RealtimeScribeClient.close(), up to its await: the promise it awaits is
\* resolved by the socket's 'close' event or by a 1 s timer
scribeClose(s) ==
    IF s.ws = Null
    THEN [s EXCEPT !.closeCalls = @ + 1]
    ELSE IF s.readyState = "OPEN"
         THEN [s EXCEPT !.commits = @ + 1,
                        !.wsCloseCalls = @ + 1,
                        !.readyState = "CLOSING",
                        !.closeCalls = @ + 1,
                        !.closeWaits = @ + 1,
                        !.closeTimers = @ + 1]
         ELSE [s EXCEPT !.closeCalls = @ + 1,
                        !.closeWaits = @ + 1,
                        !.closeTimers = @ + 1]

\* the 'close' event of RealtimeScribeClient's socket: the handler of
\* connect() and the once('close') listeners of the close() calls waiting
scribeOnClose(s) == [s EXCEPT !.ws = Null, !.readyState = "CLOSED", !.closeWaits = 0]

\* the callback of a 1 s timer of close(): resolve() of that call's promise
scribeCloseTimer(s) ==
    [s EXCEPT !.closeTimers = @ - 1, !.closeWaits = IF @ > 0 THEN @ - 1 ELSE 0]

RecStart ==
    /\ ~rec.started
    /\ rec' = recStart(rec)
    /\ UNCHANGED <<sttVars, conn, coordVars, scribe, extVars>>

RecStop ==
    /\ rec.stopCalls < MaxCalls
    /\ rec' = recStop(rec)
    /\ UNCHANGED <<sttVars, conn, coordVars, scribe, extVars>>

RecExit ==
    /\ rec.alive
    /\ rec' = recExit(rec)
    /\ UNCHANGED <<sttVars, conn, coordVars, scribe, extVars>>

RecKillTimerFires ==
    /\ rec.killTimer
    /\ rec' = recKillTimer(rec)
    /\ UNCHANGED <<sttVars, conn, coordVars, scribe, extVars>>

ConnConnect ==
    /\ conn.readyState = "NONE"
    /\ conn' = connectStart(conn)
    /\ UNCHANGED <<sttVars, coordVars, tdVars, extVars>>

ConnOpened ==
    /\ conn.readyState = "CONNECTING"
    /\ conn' = onOpen(conn)
    /\ UNCHANGED <<sttVars, coordVars, tdVars, extVars>>

ConnClose ==
    /\ conn.closeCalls < MaxCalls
    /\ conn' = close(conn)
    /\ UNCHANGED <<sttVars, coordVars, tdVars, extVars>>

ScribeConnect ==
    /\ scribe.readyState = "NONE"
    /\ scribe' = scribeConnect(scribe)
    /\ UNCHANGED <<sttVars, conn, coordVars, rec, extVars>>

ScribeOpened ==
    /\ scribe.readyState = "CONNECTING"
    /\ scribe' = [scribe EXCEPT !.readyState = "OPEN"]
    /\ UNCHANGED <<sttVars, conn, coordVars, rec, extVars>>

ScribeClose ==
    /\ scribe.closeCalls < MaxCalls
    /\ scribe' = scribeClose(scribe)
    /\ UNCHANGED <<sttVars, conn, coordVars, rec, extVars>>

ScribeSocketClosed ==
    /\ scribe.readyState \in {"CONNECTING", "OPEN", "CLOSING"}
    /\ scribe' = scribeOnClose(scribe)
    /\ UNCHANGED <<sttVars, conn, coordVars, rec, extVars>>

ScribeCloseTimerFires ==
    /\ scribe.closeTimers > 0
    /\ scribe' = scribeCloseTimer(scribe)
    /\ UNCHANGED <<sttVars, conn, coordVars, rec, extVars>>

TeardownNext ==
    \/ RecStart
    \/ RecStop
    \/ RecExit
    \/ RecKillTimerFires
    \/ ConnConnect
    \/ ConnOpened
    \/ ConnClose
    \/ WsClosed
    \/ ScribeConnect
    \/ ScribeOpened
    \/ ScribeClose
    \/ ScribeSocketClosed
    \/ ScribeCloseTimerFires

\* ------------------------------------------------------------------------
\* What the user says, and the text functions of the session loop
\* ------------------------------------------------------------------------
\* String.prototype.includes
Includes(s, p) ==
    \E i \in 0..(Len(s) - Len(p)) : SubSeq(s, i + 1, i + Len(p)) = p

\* the anchor ^ of a regular expression
StartsWith(s, p) == Len(s) >= Len(p) /\ SubSeq(s, 1, Len(p)) = p

\* String.prototype.toLowerCase, on the letters the utterances use
toLowerCase(s) ==
    LET LowerChar(c) ==
            CASE c = "B" -> "b" [] c = "E" -> "e" [] c = "N" -> "n" [] c = "Y" -> "y"
              [] OTHER -> c
    IN  [i \in DOMAIN s |-> LowerChar(s[i])]

\* toLowerCase, replace(/[^a-z0-9\s]/g, ' '), replace(/\s+/g, ' '), trim
normalizeTranscript(text) ==
    LET Alnum ==
            {"a", "b", "c", "d", "e", "f", "g", "h", "i", "j", "k", "l", "m", "n",
             "o", "p", "q", "r", "s", "t", "u", "v", "w", "x", "y", "z",
             "0", "1", "2", "3", "4", "5", "6", "7", "8", "9", " "}
        RECURSIVE CollapseSpaces(_)
        CollapseSpaces(s) ==
            IF Len(s) < 2 THEN s
            ELSE IF s[1] = " " /\ s[2] = " " THEN CollapseSpaces(Tail(s))
                 ELSE <<s[1]>> \o CollapseSpaces(Tail(s))
        lowered == toLowerCase(text)
        replaced == [i \in DOMAIN lowered |->
                        IF lowered[i] \in Alnum THEN lowered[i] ELSE " "]
    IN  Trim(CollapseSpaces(replaced))

\* what the microphone can pick up in a turn
Say ==
    [exit |-> <<"e", "x", "i", "t">>,
     bye |-> <<"B", "y", "e", "!">>,
     yes |-> <<"Y", "e", "s">>,
     no |-> <<"n", "o">>,
     run |-> <<"r", "u", "n", " ", "t", "e", "s", "t", "s">>,
     commit |-> <<"c", "o", "m", "m", "i", "t">>,
     help |-> <<"h", "e", "l", "p">>,
     why |-> <<"w", "h", "y">>,
     talk |-> <<"t", "a", "l", "k", " ", "t", "o", " ", "m", "e">>,
     short |-> <<"s", "h", "o", "r", "t">>]

Utterances == {Say[k] : k \in DOMAIN Say}

parseConfirmation(input) ==
    LET YES_PATTERNS ==
            { <<"y", "e", "s">>, <<"y", "e", "p">>, <<"y", "e", "a", "h">>, <<"y">>,
            <<"c", "o", "n", "f", "i", "r", "m">>,
            <<"c", "o", "n", "f", "i", "r", "m", "e", "d">>,
            <<"d", "o", " ", "i", "t">>, <<"p", "r", "o", "c", "e", "e", "d">>,
            <<"g", "o", " ", "a", "h", "e", "a", "d">>, <<"s", "u", "r", "e">>,
            <<"o", "k">>, <<"o", "k", "a", "y">>, <<"a", "l", "r", "i", "g", "h", "t">>,
            <<"a", "f", "f", "i", "r", "m", "a", "t", "i", "v", "e">>,
            <<"c", "o", "r", "r", "e", "c", "t">>, <<"r", "i", "g", "h", "t">>,
            <<"t", "r", "u", "e">>, <<"e", "x", "e", "c", "u", "t", "e">>,
            <<"r", "u", "n", " ", "i", "t">> }
        NO_PATTERNS ==
            { <<"n", "o">>, <<"n", "o", "p", "e">>, <<"n", "a", "h">>, <<"n">>,
            <<"c", "a", "n", "c", "e", "l">>, <<"c", "a", "n", "c", "e", "l", "l", "e", "d">>,
            <<"s", "t", "o", "p">>, <<"n", "e", "v", "e", "r", " ", "m", "i", "n", "d">>,
            <<"d", "o", "n", "'", "t">>, <<"d", "o", "n", "t">>, <<"a", "b", "o", "r", "t">>,
            <<"a", "b", "a", "n", "d", "o", "n">>, <<"s", "k", "i", "p">>,
            <<"i", "g", "n", "o", "r", "e">>, <<"f", "a", "l", "s", "e">>,
            <<"w", "r", "o", "n", "g">>, <<"n", "e", "g", "a", "t", "i", "v", "e">>,
            <<"d", "e", "c", "l", "i", "n", "e">>, <<"r", "e", "j", "e", "c", "t">> }
        normalized == Trim(toLowerCase(input))
    IN  IF \E pattern \in YES_PATTERNS : Includes(normalized, pattern) THEN "yes"
        ELSE IF \E pattern \in NO_PATTERNS : Includes(normalized, pattern) THEN "no"
        ELSE IF normalized = <<"y">> THEN "yes"
        ELSE IF normalized = <<"n">> THEN "no"
        ELSE "unclear"

\* what getConfirmation resolves with: the first of a typed y / n, the
\* transcript of the voice capture, and a failure of the voice capture
Answers ==
    [src : {"typed"}, said : {<<"y">>, <<"N">>}]
    \cup [src : {"voice"}, said : Utterances \cup {<<>>}]
    \cup [src : {"voiceFailed"}, said : {<<>>}]

getConfirmation(answer) ==
    IF answer.src = "typed"
    THEN (IF toLowerCase(answer.said) = <<"y">> THEN "yes" ELSE "no")
    ELSE IF answer.src = "voice" THEN parseConfirmation(answer.said)
    ELSE "unclear"

detectExitInteractiveMode(text) ==
    LET normalized == normalizeTranscript(text)
        hasBye == /\ Includes(normalized, <<"b", "y", "e">>)
                  /\ ~Includes(normalized, <<"b", "y", "e", " ", "i", "n", "t", "e",
                                            "r", "a", "c", "t", "i", "v", "e">>)
                  /\ ~Includes(normalized, <<"e", "x", "i", "t", " ", "i", "n", "t",
                                            "e", "r", "a", "c", "t", "i", "v", "e">>)
    IN  \/ hasBye
        \/ Includes(normalized, <<"g", "o", "o", "d", "b", "y", "e">>)
        \/ Includes(normalized, <<"s", "e", "e", " ", "y", "o", "u">>)
        \/ Includes(normalized, <<"f", "a", "r", "e", "w", "e", "l", "l">>)

detectInteractiveModeTrigger(text) ==
    LET normalized == normalizeTranscript(text)
    IN  \E pattern \in
            { <<"i", "n", "t", "e", "r", "a", "c", "t", "i", "v", "e">>,
              <<"t", "a", "l", "k", " ", "w", "i", "t", "h", " ", "m", "e">>,
              <<"t", "a", "l", "k", " ", "t", "o", " ", "m", "e">>,
              <<"c", "h", "a", "t", " ", "m", "o", "d", "e">>,
              <<"w", "a", "n", "t", " ", "t", "o", " ", "t", "a", "l", "k">>,
              <<"c", "a", "n", " ", "w", "e", " ", "t", "a", "l", "k">> } :
            Includes(normalized, pattern)

\* /^(run|git|create|commit|help|exit|quit|stop)/i, or a long response
isNewIntent(transcription) ==
    LET normalized == Trim(toLowerCase(transcription))
    IN  \/ \E keyword \in
               { <<"r", "u", "n">>, <<"g", "i", "t">>, <<"c", "r", "e", "a", "t", "e">>,
                 <<"c", "o", "m", "m", "i", "t">>, <<"h", "e", "l", "p">>,
                 <<"e", "x", "i", "t">>, <<"q", "u", "i", "t">>, <<"s", "t", "o", "p">> } :
               StartsWith(normalized, keyword)
        \/ Len(normalized) > 50

\* applyStyleDirective(...).onlyDirective, for the one-word directives
onlyDirective(input) ==
    Trim(toLowerCase(input)) \in
        { <<"s", "h", "o", "r", "t">>, <<"b", "r", "i", "e", "f">>,
          <<"c", "o", "n", "c", "i", "s", "e">>, <<"n", "o", "r", "m", "a", "l">>,
          <<"l", "o", "g", "s">>, <<"s", "t", "e", "p", "s">>,
          <<"e", "x", "p", "a", "n", "d">> }

\* ------------------------------------------------------------------------
\* The planner and the dispatcher, as the loop sees them
\* ------------------------------------------------------------------------
\* the results the planner and dispatchAgentResult can give for a transcript:
\* "exit" is the EXIT intent, a farewell is answered with shouldExit
Understand(transcription) ==
    LET Plan(kind, intent, shouldExit, requiresConfirmation, asks) ==
            [kind |-> kind, intent |-> intent, shouldExit |-> shouldExit,
             requiresConfirmation |-> requiresConfirmation, asks |-> asks]
        InfoPlan(intent, shouldExit, asks) ==
            Plan("info", intent, shouldExit, FALSE, asks)
        ActionPlan(intent, requiresConfirmation) ==
            Plan("action", intent, FALSE, requiresConfirmation, FALSE)
    IN
    IF detectInteractiveModeTrigger(transcription)
    THEN {Plan("interactive", "INTERACTIVE_MODE", FALSE, FALSE, FALSE)}
    ELSE IF transcription = Say.exit THEN {InfoPlan("EXIT", FALSE, FALSE)}
    ELSE IF transcription = Say.bye THEN {InfoPlan("EXIT", TRUE, FALSE)}
    ELSE IF transcription = Say.run THEN {ActionPlan("RUN_TESTS", FALSE)}
    ELSE IF transcription = Say.commit THEN {ActionPlan("MAKE_COMMIT", TRUE)}
    ELSE IF transcription = Say.why
         THEN {InfoPlan("EXPLAIN_FAILURE", FALSE, TRUE),
               InfoPlan("EXPLAIN_FAILURE", FALSE, FALSE)}
    ELSE {InfoPlan("UNKNOWN", FALSE, FALSE), InfoPlan("HELP", FALSE, FALSE),
          Plan("clarify", "UNKNOWN", FALSE, FALSE, FALSE)}

\* ------------------------------------------------------------------------
\* chatMode: one step is one iteration of while (true)
\* ------------------------------------------------------------------------
NewChat(live) ==
    [live |-> live,
     currentState |-> "LISTENING_FOR_COMMAND",
     pendingAction |-> Null,
     isInteractiveMode |-> FALSE,
     inDiagnosisMode |-> FALSE,
     running |-> TRUE,
     iterations |-> 0,
     executed |-> <<>>,
     lastIteration |-> [branch |-> "none", heard |-> <<>>, confirmation |-> "none",
                        failure |-> "none"]]

\* what an iteration notes about itself
Iteration(branch, heard, confirmation, failure) ==
    [branch |-> branch, heard |-> heard, confirmation |-> confirmation,
     failure |-> failure]

\* executeCommand(commandTemplate) was called
Executed(c, intent, requiresConfirmation, confirmation) ==
    Append(c.executed, [intent |-> intent,
                        requiresConfirmation |-> requiresConfirmation,
                        confirmation |-> confirmation])

ExecutesPending_unlessNo(confirmation) == confirmation # "no"

\* if (confirmation === 'yes')
ExecutesPending(confirmation) == confirmation = "yes"

PendingAfterLeave_kept(pendingAction) == pendingAction

\* pendingAction = null, on leaving the confirmation branch
PendingAfterLeave(pendingAction) == Null

CatchTurnError_exit(c) == [c EXCEPT !.running = FALSE]

\* the catch around the loop body: report, speak, next iteration
CatchTurnError(c) == c

\* the branch for AppState.AWAITING_CONFIRMATION
ConfirmTurn(c, answer, fault) ==
    IF c.pendingAction = Null
    THEN [c EXCEPT !.currentState = "LISTENING_FOR_COMMAND",
                   !.lastIteration = Iteration("confirm", <<>>, "none", "none")]
    ELSE
    LET confirmation == getConfirmation(answer)
        failure == IF answer.src = "voiceFailed" THEN "stream"
                   ELSE IF fault = "executor" /\ ExecutesPending(confirmation)
                        THEN "executor"
                   ELSE IF fault = "tts" THEN "tts" ELSE "none"
        note == Iteration("confirm", answer.said, confirmation, failure)
    IN  IF ExecutesPending(confirmation)
        THEN [c EXCEPT !.executed = Executed(c, c.pendingAction, TRUE, confirmation),
                       !.pendingAction = PendingAfterLeave(c.pendingAction),
                       !.currentState = "LISTENING_FOR_COMMAND",
                       !.lastIteration = note]
        ELSE IF confirmation = "no"
        THEN [c EXCEPT !.pendingAction = PendingAfterLeave(c.pendingAction),
                       !.currentState = "LISTENING_FOR_COMMAND",
                       !.lastIteration = note]
        ELSE [c EXCEPT !.lastIteration = note]

\* the rest of the loop body, from the dispatched result on
DispatchTurn(c, plan, fault, note) ==
    IF fault = "dispatcher" THEN CatchTurnError([c EXCEPT !.lastIteration = note])
    ELSE IF plan.kind = "info"
    THEN LET d == [c EXCEPT !.inDiagnosisMode =
                       IF plan.intent = "EXPLAIN_FAILURE" THEN plan.asks ELSE @,
                            !.lastIteration = note]
         IN  IF plan.shouldExit \/ plan.intent = "EXIT"
             THEN IF plan.shouldExit THEN [d EXCEPT !.running = FALSE]
                  ELSE IF d.isInteractiveMode
                       THEN [d EXCEPT !.isInteractiveMode = FALSE]
                  ELSE [d EXCEPT !.running = FALSE]
             ELSE d
    ELSE IF plan.requiresConfirmation
    THEN [c EXCEPT !.pendingAction = plan.intent,
                   !.currentState = "AWAITING_CONFIRMATION",
                   !.lastIteration = note]
    ELSE LET d == [c EXCEPT !.executed = Executed(c, plan.intent,
                                                  plan.requiresConfirmation, "none"),
                            !.lastIteration = note]
         IN  IF fault = "executor" THEN CatchTurnError(d) ELSE d

\* the loop body for AppState.LISTENING_FOR_COMMAND
ListenTurn(c, said, plan, fault) ==
    LET note(heard) == Iteration("listen", heard, "none", fault)
        streamFailed == c.live /\ fault \in {"stream", "streamAndBatch"}
        c1 == IF streamFailed \/ fault = "transcribe"
              THEN [c EXCEPT !.isInteractiveMode = FALSE] ELSE c
    IN  IF fault = "record" THEN CatchTurnError([c EXCEPT !.lastIteration = note(<<>>)])
        ELSE IF fault \in {"streamAndBatch", "transcribe"}
        THEN [c1 EXCEPT !.lastIteration = note(<<>>)]
        ELSE IF c.live /\ ~streamFailed /\ said = <<>>
        THEN [c1 EXCEPT !.lastIteration = note(<<>>)]
        ELSE IF c1.isInteractiveMode /\ detectExitInteractiveMode(said)
        THEN [c1 EXCEPT !.running = FALSE, !.lastIteration = note(said)]
        ELSE IF onlyDirective(said)
        THEN [c1 EXCEPT !.lastIteration = note(said)]
        ELSE IF c1.inDiagnosisMode /\ ~isNewIntent(said)
        THEN [c1 EXCEPT !.inDiagnosisMode = FALSE, !.lastIteration = note(said)]
        ELSE LET c2 == [c1 EXCEPT !.inDiagnosisMode = FALSE]
             IN  IF fault = "planner"
                 THEN CatchTurnError([c2 EXCEPT !.lastIteration = note(said)])
                 ELSE IF plan.kind = "interactive"
                 THEN [c2 EXCEPT !.isInteractiveMode = TRUE,
                                 !.lastIteration = note(said)]
                 ELSE IF plan.kind = "clarify"
                 THEN [c2 EXCEPT !.lastIteration = note(said)]
                 ELSE DispatchTurn(c2, plan, fault, note(said))

\* the failures one iteration can meet
ConfirmFaults == {"none", "executor", "tts"}

ListenFaults(live) ==
    {"none", "planner", "dispatcher", "executor", "tts"}
    \cup (IF live THEN {"stream", "streamAndBatch"} ELSE {"record", "transcribe"})

ChatConfirmIteration(answer, fault) ==
    /\ chat.running /\ chat.iterations < MaxIterations
    /\ chat.currentState = "AWAITING_CONFIRMATION"
    /\ chat' = [ConfirmTurn(chat, answer, fault) EXCEPT !.iterations = @ + 1]
    /\ UNCHANGED <<baseVars, st, wire, old, moreVars>>

ChatListenIteration(said, plan, fault) ==
    /\ chat.running /\ chat.iterations < MaxIterations
    /\ chat.currentState = "LISTENING_FOR_COMMAND"
    /\ plan \in Understand(said)
    /\ chat' = [ListenTurn(chat, said, plan, fault) EXCEPT !.iterations = @ + 1]
    /\ UNCHANGED <<baseVars, st, wire, old, moreVars>>

ChatNext ==
    \/ \E answer \in Answers, fault \in ConfirmFaults :
           ChatConfirmIteration(answer, fault)
    \/ \E said \in Utterances \cup {<<>>}, fault \in ListenFaults(chat.live) :
           \E plan \in Understand(said) : ChatListenIteration(said, plan, fault)


\* ------------------------------------------------------------------------
\* streamTranscribe: one call, with its StreamRecorder and StreamingSTTClient
\* ------------------------------------------------------------------------
\* the call has run to the end of the Promise executor: handlers are set,
\* recorder.start() is pending, sttClient.connect() has set isConnected
NewStream ==
    [started |-> "starting",        \* recorder.start(): starting, ok, failed
     handlersOn |-> FALSE,          \* 'chunk' and 'stop' handlers registered
     recording |-> FALSE,           \* recorder.isRecording
     ffmpegProcess |-> Null,        \* recorder.ffmpegProcess: Null or "proc"
     alive |-> FALSE,               \* the ffmpeg process has not exited
     stdinOn |-> TRUE,              \* stopHandler is registered on stdin
     manualStop |-> FALSE,
     pcmChunks |-> 0,
     isConnected |-> TRUE,
     audioBuffer |-> <<>>,
     silenceTimeout |-> FALSE,
     partialTimeout |-> FALSE,
     late |-> FALSE,                \* Date.now() - lastSpeechTime >= minSilenceMs
     chunkCount |-> 0,
     requestCount |-> 0,
     inflight |-> {},
     issued |-> <<>>,               \* the audio of the final requests sent
     finals |-> <<>>,               \* the audio of the 'final' events emitted
     finalTranscript |-> <<>>,
     finalize |-> "none",           \* none, requesting, waiting, resolved, rejected
     cleanups |-> 0,                \* tryCleanupTranscript calls waiting for transcribe
     cleanupRuns |-> 0,
     fallbacks |-> 0,               \* errorHandler calls waiting for the batch fallback
     fallbackRuns |-> 0,
     errorEvents |-> 0,
     settled |-> "pending",         \* pending, resolved, rejected
     callerFallbacks |-> 0]         \* fallback recordings of the caller's catch

\* resolve(...) / reject(...) of the call's promise: the first one counts
stSettle(s, how) == IF s.settled = "pending" THEN [s EXCEPT !.settled = how] ELSE s

\* StreamingSTTClient.close
stClose(s) ==
    [s EXCEPT !.silenceTimeout = FALSE, !.partialTimeout = FALSE,
              !.isConnected = FALSE, !.audioBuffer = <<>>]

\* the chunks a request carries
AudioOf(r) == [i \in DOMAIN r.audio |-> r.audio[i].id]

\* processBufferedAudio up to its await
stProcessBufferedAudio(s, isFinal, forFinalize) ==
    IF NeedsRequest(isFinal, s.audioBuffer)
    THEN LET r == [rid |-> s.requestCount + 1, isFinal |-> isFinal,
                   audio |-> s.audioBuffer, forFinalize |-> forFinalize]
         IN  [s EXCEPT !.requestCount = @ + 1, !.inflight = @ \cup {r},
                       !.issued = IF isFinal THEN Append(@, AudioOf(r)) ELSE @]
    ELSE s

\* tryCleanupTranscript up to its await of transcribe(path); without audio
\* it returns at once and the caller resolves
stTryCleanup(s) ==
    IF s.pcmChunks = 0
    THEN stSettle([s EXCEPT !.stdinOn = FALSE], "resolved")
    ELSE [s EXCEPT !.cleanups = @ + 1, !.cleanupRuns = @ + 1]

\* the recorder 'stop' handler after finalize() resolved with transcript
stStopHandlerDone(s, transcript) ==
    stTryCleanup(stClose([s EXCEPT !.finalize = "resolved",
                                   !.finalTranscript =
                                       IF transcript # <<>> THEN transcript ELSE @]))

\* the catch of the recorder 'stop' handler
stStopHandlerCatch(s) ==
    stSettle([stClose(s) EXCEPT !.finalize = "rejected", !.stdinOn = FALSE],
             "resolved")

\* the recorder 'stop' handler up to its await: finalize() up to its await
stOnStop(s) ==
    IF ~(s.manualStop \/ ~s.recording) THEN s
    ELSE IF s.audioBuffer = <<>> THEN stStopHandlerDone(s, <<>>)
    ELSE stProcessBufferedAudio([s EXCEPT !.finalize = "requesting"], TRUE, TRUE)

\* StreamRecorder.stop, with the handler of the 'stop' event it emits
stRecorderStop(s) ==
    IF ~s.recording \/ s.ffmpegProcess = Null THEN s
    ELSE LET s1 == [s EXCEPT !.recording = FALSE, !.ffmpegProcess = Null]
         IN  IF s.handlersOn THEN stOnStop(s1) ELSE s1

\* the 'final' handler up to its await of tryCleanupTranscript
stOnFinal(s, text) ==
    LET s1 == [s EXCEPT !.finalTranscript = text]
        s2 == IF s1.recording THEN stRecorderStop(s1) ELSE s1
    IN  stTryCleanup(stClose(s2))

\* errorHandler up to its await of recordAudio
stErrorHandler(s) ==
    LET s1 == stClose(stRecorderStop([s EXCEPT !.errorEvents = @ + 1]))
    IN  [s1 EXCEPT !.stdinOn = FALSE, !.fallbacks = @ + 1, !.fallbackRuns = @ + 1]

\* finalize() after its await of processBufferedAudio: once('final') and the
\* 5 s timer are set now
stFinalizeWaits(s, r) ==
    IF r.forFinalize /\ s.finalize = "requesting"
    THEN [s EXCEPT !.finalize = "waiting"] ELSE s

\* processBufferedAudio after its await
stAfterRequest(s, r, resp) ==
    LET result == transcribeBatch(resp)
        s0 == [s EXCEPT !.inflight = @ \ {r}]
    IN  IF ~resp.ok
        THEN stFinalizeWaits(stErrorHandler(s0), r)
        ELSE IF r.isFinal
        THEN LET s1 == stOnFinal([s0 EXCEPT !.finals = Append(@, AudioOf(r))], result)
                 s2 == IF s0.finalize = "waiting"
                       THEN stStopHandlerDone(s1, result) ELSE s1
             IN  stFinalizeWaits([s2 EXCEPT !.audioBuffer = <<>>], r)
        ELSE IF Trim(result) # <<>>
        THEN [s0 EXCEPT !.audioBuffer = <<>>]
        ELSE s0

\* the backend's answers to the requests of one call
StreamResponses ==
    {resp \in Responses : resp.form # "channel" /\ resp.val \in {<<>>, <<"h", "i", " ">>}}

\* recorder.start() settles
StStart(ok) ==
    /\ st.started = "starting"
    /\ st' = IF ok
             THEN [st EXCEPT !.started = "ok", !.handlersOn = TRUE,
                             !.recording = TRUE, !.ffmpegProcess = "proc",
                             !.alive = TRUE]
             ELSE stSettle([st EXCEPT !.started = "failed"], "rejected")
    /\ UNCHANGED <<baseVars, chat, wire, old, moreVars>>

\* the recorder emits 'chunk'
StChunk(chunk) ==
    /\ st.alive /\ st.handlersOn /\ st.chunkCount < MaxStreamChunks
    /\ LET c == [len |-> chunk.len, amp |-> chunk.amp, id |-> st.chunkCount + 1]
           s0 == [st EXCEPT !.chunkCount = @ + 1]
       IN  IF st.manualStop \/ ~st.recording THEN st' = s0
           ELSE /\ st.isConnected
                /\ LET s1 == [s0 EXCEPT !.pcmChunks = @ + 1,
                                        !.audioBuffer = Append(@, c),
                                        !.partialTimeout = TRUE,
                                        !.late = IF isSpeech(c) THEN FALSE ELSE @]
                   IN  st' = IF isSpeech(c)
                             THEN [s1 EXCEPT !.silenceTimeout = TRUE]
                             ELSE IF s1.late
                             THEN stProcessBufferedAudio(
                                      [s1 EXCEPT !.silenceTimeout = FALSE], TRUE, FALSE)
                             ELSE s1
    /\ UNCHANGED <<baseVars, chat, wire, old, moreVars>>

\* minSilenceMs pass since the last speech while no silence timer is set
StSilenceElapses ==
    /\ st.started = "ok" /\ st.isConnected /\ ~st.late /\ ~st.silenceTimeout
    /\ st' = [st EXCEPT !.late = TRUE]
    /\ UNCHANGED <<baseVars, chat, wire, old, moreVars>>

\* the callback of checkSilence's timer
StSilenceTimer ==
    /\ st.silenceTimeout
    /\ LET s1 == [st EXCEPT !.silenceTimeout = FALSE, !.late = TRUE]
       IN  st' = IF s1.audioBuffer # <<>> /\ s1.isConnected
                 THEN stProcessBufferedAudio(s1, TRUE, FALSE) ELSE s1
    /\ UNCHANGED <<baseVars, chat, wire, old, moreVars>>

\* the callback of sendAudioChunk's 500 ms timer
StPartialTimer ==
    /\ st.partialTimeout
    /\ LET s1 == [st EXCEPT !.partialTimeout = FALSE]
       IN  st' = IF s1.audioBuffer # <<>> /\ s1.isConnected
                 THEN stProcessBufferedAudio(s1, FALSE, FALSE) ELSE s1
    /\ UNCHANGED <<baseVars, chat, wire, old, moreVars>>

\* the backend answers a request
StResponse(r, resp) ==
    /\ r \in st.inflight
    /\ st' = stAfterRequest(st, r, resp)
    /\ UNCHANGED <<baseVars, chat, wire, old, moreVars>>

\* Enter or q on stdin
StManualStop ==
    /\ st.stdinOn
    /\ st' = [stRecorderStop([st EXCEPT !.manualStop = TRUE]) EXCEPT !.stdinOn = FALSE]
    /\ UNCHANGED <<baseVars, chat, wire, old, moreVars>>

\* ffmpeg exits: by itself, or after the SIGTERM of stop() (which it answers
\* with a signal exit, code null, or with an exit code of its own)
StRecorderExit(code) ==
    /\ st.alive
    /\ LET s1 == [st EXCEPT !.alive = FALSE, !.recording = FALSE]
       IN  st' = IF code = "nonzero" THEN stErrorHandler(s1) ELSE s1
    /\ UNCHANGED <<baseVars, chat, wire, old, moreVars>>

\* ffmpeg writes a line with "error" to stderr
StRecorderStderr ==
    /\ st.alive /\ st.errorEvents < MaxErrorEvents
    /\ st' = stErrorHandler(st)
    /\ UNCHANGED <<baseVars, chat, wire, old, moreVars>>

\* the 5 s timer of finalize()
StFinalizeTimeout ==
    /\ st.finalize = "waiting"
    /\ st' = stStopHandlerCatch(st)
    /\ UNCHANGED <<baseVars, chat, wire, old, moreVars>>

\* transcribe(path) of tryCleanupTranscript settles
StCleanupDone(text) ==
    /\ st.cleanups > 0
    /\ st' = stSettle([st EXCEPT !.cleanups = @ - 1, !.stdinOn = FALSE,
                                 !.finalTranscript = IF text # <<>> THEN text ELSE @],
                      "resolved")
    /\ UNCHANGED <<baseVars, chat, wire, old, moreVars>>

\* recordAudio + transcribe of errorHandler settle
StFallbackDone(ok) ==
    /\ st.fallbacks > 0
    /\ st' = stSettle([st EXCEPT !.fallbacks = @ - 1],
                      IF ok THEN "resolved" ELSE "rejected")
    /\ UNCHANGED <<baseVars, chat, wire, old, moreVars>>

\* chatMode's catch around streamTranscribe: recordAudio + transcribe
StCallerCatch ==
    /\ st.settled = "rejected" /\ st.callerFallbacks = 0
    /\ st' = [st EXCEPT !.callerFallbacks = @ + 1]
    /\ UNCHANGED <<baseVars, chat, wire, old, moreVars>>

StreamNext ==
    \/ \E ok \in BOOLEAN : StStart(ok)
    \/ \E chunk \in {c \in Chunks : c.amp > 0} : StChunk(chunk)
    \/ StSilenceElapses
    \/ StSilenceTimer
    \/ StPartialTimer
    \/ \E r \in st.inflight, resp \in StreamResponses : StResponse(r, resp)
    \/ StManualStop
    \/ \E code \in {"zero", "nonzero", "signal"} : StRecorderExit(code)
    \/ StRecorderStderr
    \/ StFinalizeTimeout
    \/ \E text \in {<<>>, <<"h", "i">>} : StCleanupDone(text)
    \/ \E ok \in BOOLEAN : StFallbackDone(ok)
    \/ StCallerCatch

\* ------------------------------------------------------------------------
\* Inbound messages of the two WebSocket clients
\* ------------------------------------------------------------------------
\* a parsed JSON message; Null stands for an absent field, is_final holds
\* the JSON literal, and an absent text is the same as '' to both handlers
WireMessages ==
    [message_type : {Null, "partial_transcript", "committed_transcript", "transcript"},
     type : {Null, "partial_transcript", "committed_transcript"},
     is_final : {Null, "true", "false"},
     text : {<<>>, <<"h", "i">>}]

\* message.message_type || message.type
messageType(message) ==
    IF message.message_type # Null THEN message.message_type ELSE message.type

\* message.text || ''
textOf(message) == IF message.text # <<>> THEN message.text ELSE <<>>

\* RealtimeSTTConnection.handleMessage: the calls of config.onTranscript
connHandleMessage(message) ==
    LET tag == messageType(message)
        isFinal == \/ tag = "final_transcript"
                   \/ tag = "committed_transcript"
                   \/ message.is_final = "true"
    IN  IF tag \in {"transcript", "partial_transcript", "final_transcript",
                    "committed_transcript"}
        THEN << [tag |-> tag, text |-> textOf(message), isFinal |-> isFinal] >>
        ELSE << >>

\* RealtimeScribeClient.handleMessage: the calls of its partial and final
\* handlers
scribeHandleMessage(message) ==
    LET tag == messageType(message)
    IN  IF tag = "partial_transcript"
        THEN << [tag |-> tag, text |-> textOf(message), isFinal |-> FALSE] >>
        ELSE IF tag \in {"committed_transcript", "committed_transcript_with_timestamps"}
                /\ Trim(textOf(message)) # <<>>
        THEN << [tag |-> tag, text |-> Trim(textOf(message)), isFinal |-> TRUE] >>
        ELSE << >>

\* RealtimeScribeClient.handleMessage: currentPartialText afterwards
scribePartialText(message, was) ==
    LET tag == messageType(message)
    IN  IF tag = "partial_transcript" THEN textOf(message)
        ELSE IF tag \in {"committed_transcript", "committed_transcript_with_timestamps"}
                /\ Trim(textOf(message)) # <<>>
        THEN <<>>
        ELSE was

\* one connection of each client, which serves one utterance; last is the
\* message received last and the client that received it
NewWire ==
    [received |-> 0, conn |-> <<>>, scribe |-> <<>>, currentPartialText |-> <<>>,
     last |-> [by |-> "none", tag |-> Null, text |-> <<>>]]

\* ws.on('message') of RealtimeSTTConnection
ConnOnMessage(message) ==
    /\ wire.received < MaxWireMessages
    /\ wire' = [wire EXCEPT !.received = @ + 1,
                            !.conn = @ \o connHandleMessage(message),
                            !.last = [by |-> "conn", tag |-> messageType(message),
                                      text |-> textOf(message)]]
    /\ UNCHANGED <<baseVars, chat, st, old, moreVars>>

\* ws.on('message') of RealtimeScribeClient
ScribeOnMessage(message) ==
    /\ wire.received < MaxWireMessages
    /\ wire' = [wire EXCEPT !.received = @ + 1,
                            !.scribe = @ \o scribeHandleMessage(message),
                            !.currentPartialText =
                                scribePartialText(message, wire.currentPartialText),
                            !.last = [by |-> "scribe", tag |-> messageType(message),
                                      text |-> textOf(message)]]
    /\ UNCHANGED <<baseVars, chat, st, old, moreVars>>

WireNext ==
    \/ \E message \in WireMessages : ConnOnMessage(message)
    \/ \E message \in WireMessages : ScribeOnMessage(message)

\* ------------------------------------------------------------------------
\* chatMode with spoken interruptions (the older loop): one step is one
\* iteration of while (true)
\* ------------------------------------------------------------------------
NewOldChat(useRealtime) ==
    [useRealtime |-> useRealtime,
     isInteractiveMode |-> FALSE,
     running |-> TRUE,
     iterations |-> 0,
     interruption |-> <<>>,     \* the transcript the last iteration assigned to
                                \* transcription before it ended, if any
     recordings |-> 0,          \* recordings made in the last iteration
     planned |-> FALSE,         \* the last iteration reached the planner
     input |-> <<>>,            \* with this transcription
     executed |-> <<>>]

\* the intent the planner gives for a transcript
oldIntent(transcription) ==
    IF transcription = Say.talk THEN "SWITCH_TO_INTERACTIVE_MODE"
    ELSE IF transcription = Say.exit THEN "EXIT"
    ELSE IF transcription = Say.help THEN "HELP"
    ELSE IF transcription = Say.why THEN "EXPLAIN_FAILURE"
    ELSE IF transcription = Say.run THEN "RUN_TESTS"
    ELSE IF transcription = Say.commit THEN "MAKE_COMMIT"
    ELSE "UNKNOWN"

\* safeSpeak(text, mute, useRealtime, enableInterrupt) with mute false: what
\* it returns (<<>> for null) when heard is what interruptibleSafeSpeak
\* picked up while speaking
oldSafeSpeak(enableInterrupt, heard) == IF enableInterrupt THEN heard ELSE <<>>

\* the loop body
OldTurn(o, said, confirmSaid, heard, fault) ==
    LET \* let transcription = '' at the head of the body, then the capture:
        \* transcribeRealtime, or recordAudio + transcribe
        captured == o.useRealtime \/ fault # "transcribe"
        recordings == IF o.useRealtime /\ fault \in {"realtime", "realtimeAndBatch"}
                      THEN 2 ELSE 1
        transcription == said
        o1 == [o EXCEPT !.recordings = recordings, !.planned = FALSE,
                        !.input = <<>>, !.interruption = <<>>]
        \* an interruptible safeSpeak as the last statement before continue
        spoken(p) == [p EXCEPT !.interruption =
                                   oldSafeSpeak(p.isInteractiveMode, heard)]
        caught(p) == spoken(p)
        o2 == [o1 EXCEPT !.planned = TRUE, !.input = transcription]
        intent == oldIntent(transcription)
        normalized == toLowerCase(confirmSaid)
        confirmed == \/ Includes(normalized, <<"c", "o", "n", "f", "i", "r", "m">>)
                     \/ Includes(normalized, <<"p", "r", "o", "c", "e", "e", "d">>)
                     \/ Includes(normalized, <<"y", "e", "s">>)
    IN  IF o.useRealtime /\ fault = "realtimeAndBatch" THEN caught(o1)
        ELSE IF ~captured THEN o1
        ELSE IF fault = "planner" THEN caught(o2)
        ELSE IF intent = "SWITCH_TO_INTERACTIVE_MODE"
        THEN [o2 EXCEPT !.isInteractiveMode = TRUE]
        ELSE IF intent = "EXIT"
        THEN [o2 EXCEPT !.isInteractiveMode = FALSE, !.running = FALSE]
        ELSE IF intent \in {"HELP", "EXPLAIN_FAILURE", "UNKNOWN"} THEN spoken(o2)
        ELSE IF intent = "MAKE_COMMIT" /\ ~confirmed
        THEN spoken([o2 EXCEPT !.recordings = @ + 1])
        ELSE LET o3 == [o2 EXCEPT !.recordings =
                                      IF intent = "MAKE_COMMIT" THEN @ + 1 ELSE @,
                                  !.executed = Append(@, intent)]
             IN  IF fault = "executor" THEN caught(o3) ELSE spoken(o3)

OldChatIteration(said, confirmSaid, heard, fault) ==
    /\ old.running /\ old.iterations < MaxIterations
    /\ old' = [OldTurn(old, said, confirmSaid, heard, fault)
                  EXCEPT !.iterations = @ + 1]
    /\ UNCHANGED <<baseVars, chat, st, wire, moreVars>>

OldChatNext ==
    \E said \in {Say.talk, Say.exit, Say.help, Say.run, Say.commit, Say.short},
       confirmSaid \in {Say.yes, Say.no},
       heard \in {<<>>, Say.run, Say.help},
       fault \in {"none", "realtime", "realtimeAndBatch", "transcribe", "planner",
                  "executor"} :
        OldChatIteration(said, confirmSaid, heard, fault)

\* ------------------------------------------------------------------------
\* The capture subprocesses of a session: a StreamRecorder whose start() and
\* stop() are called any number of times, and the capture that
\* getConfirmation starts beside its key handler
\* ------------------------------------------------------------------------
NewMic ==
    [isRecording |-> FALSE, ffmpegProcess |-> None, alive |-> {}, killed |-> {},
     pending |-> 0, killTimers |-> 0, spawned |-> 0, startCalls |-> 0,
     failing |-> {}, errors |-> 0, ends |-> 0, lastEvent |-> "none",
     gc |-> "none", gcCapture |-> "none", turnCapture |-> FALSE]

micFrame == <<baseVars, chat, st, wire, old, play, slicer, lastVars>>

\* start() up to "await this.initialize()": it throws if isRecording
SrStart ==
    /\ mic.startCalls < MaxStarts
    /\ mic' = IF mic.isRecording
              THEN [mic EXCEPT !.startCalls = @ + 1]
              ELSE [mic EXCEPT !.startCalls = @ + 1, !.pending = @ + 1]
    /\ UNCHANGED micFrame

\* start() after initialize(), which may throw on win32: spawn, the
\* handlers, isRecording = true. spawn() returns a ChildProcess also when
\* the binary is not found; the failure comes later as its 'error' event
SrInitialized(ok, found) ==
    /\ mic.pending > 0
    /\ mic' = IF ok
              THEN [mic EXCEPT !.pending = @ - 1,
                               !.spawned = @ + 1,
                               !.ffmpegProcess = mic.spawned + 1,
                               !.alive = IF found THEN @ \cup {mic.spawned + 1} ELSE @,
                               !.failing = IF found THEN @ ELSE @ \cup {mic.spawned + 1},
                               !.isRecording = TRUE]
              ELSE [mic EXCEPT !.pending = @ - 1]
    /\ UNCHANGED micFrame

\* stop()
SrStop ==
    /\ mic.spawned > 0
    /\ mic' = IF ~mic.isRecording \/ mic.ffmpegProcess = None
              THEN mic
              ELSE [mic EXCEPT !.isRecording = FALSE,
                               !.killed = @ \cup {mic.ffmpegProcess},
                               !.killTimers = @ + 1,
                               !.ffmpegProcess = None]
    /\ UNCHANGED micFrame

\* the codes a process can end with: 0, another code, or null (by signal)
ExitCodes == {0, 1, None}

\* the 'exit' handler that start() puts on the process
srOnExit(m, code) ==
    IF code # 0 /\ code # None
    THEN [m EXCEPT !.isRecording = FALSE, !.errors = @ + 1]
    ELSE [m EXCEPT !.isRecording = FALSE, !.ends = @ + 1]

\* the 'error' handler that start() puts on the process
srOnError(m) == [m EXCEPT !.errors = @ + 1]

\* process p ends, by itself or by the signal it got
SrProcessExit(p, code) ==
    /\ p \in mic.alive
    /\ mic' = [srOnExit(mic, code) EXCEPT !.alive = @ \ {p},
                                          !.lastEvent = IF code = 1 THEN "exitFailed"
                                                        ELSE "exit"]
    /\ UNCHANGED micFrame

\* the 'error' event of a process that could not be spawned; its 'exit'
\* event may or may not follow
SrSpawnError(p, exitFollows) ==
    /\ p \in mic.failing
    /\ mic' = [(IF exitFollows THEN srOnExit(srOnError(mic), 1) ELSE srOnError(mic))
                 EXCEPT !.failing = @ \ {p}, !.lastEvent = "spawnError"]
    /\ UNCHANGED micFrame

\* the callback of stop()'s 500 ms timer: it reads this.ffmpegProcess anew
SrKillTimerFires ==
    /\ mic.killTimers > 0
    /\ mic' = [mic EXCEPT !.killTimers = @ - 1,
                          !.killed = IF /\ mic.ffmpegProcess # None
                                        /\ mic.ffmpegProcess \notin mic.killed
                                     THEN @ \cup {mic.ffmpegProcess}
                                     ELSE @]
    /\ UNCHANGED micFrame

\* getConfirmation() with useVoice and useLiveTranscription: the key handler
\* is installed and streamTranscribe starts its own recorder
GcStart ==
    /\ mic.gc = "none"
    /\ mic' = [mic EXCEPT !.gc = "pending", !.gcCapture = "running"]
    /\ UNCHANGED micFrame

\* typedHandler(key): 'y' or 'n' resolves the promise, other keys are ignored
GcTyped(key) ==
    /\ mic.gc = "pending"
    /\ mic' = IF key \in {"y", "n"} THEN [mic EXCEPT !.gc = "returned"] ELSE mic
    /\ UNCHANGED micFrame

\* streamTranscribe settles, its recorder stopped: "if (!resolved) resolve(..)"
GcVoiceDone ==
    /\ mic.gcCapture = "running"
    /\ mic' = [mic EXCEPT !.gcCapture = "ended",
                          !.gc = IF @ = "pending" THEN "returned" ELSE @]
    /\ UNCHANGED micFrame

\* chatMode, after getConfirmation returned, reaches the capture of its next
\* iteration
NextTurnCapture ==
    /\ mic.gc = "returned"
    /\ ~mic.turnCapture
    /\ mic' = [mic EXCEPT !.turnCapture = TRUE]
    /\ UNCHANGED micFrame

CaptureNext ==
    \/ SrStart
    \/ \E ok, found \in BOOLEAN : SrInitialized(ok, found)
    \/ SrStop
    \/ \E p \in mic.alive, code \in ExitCodes : SrProcessExit(p, code)
    \/ \E p \in mic.failing, exitFollows \in BOOLEAN : SrSpawnError(p, exitFollows)
    \/ SrKillTimerFires
    \/ GcStart
    \/ \E key \in {"y", "n", "x"} : GcTyped(key)
    \/ GcVoiceDone
    \/ NextTurnCapture

\* ------------------------------------------------------------------------
\* The playback subprocesses of a session: the safeSpeak calls of the older
\* chatMode, one after the other, each awaited by the loop
\* ------------------------------------------------------------------------
NewPlay ==
    [spawned |-> 0, awaiting |-> None, interruptible |-> FALSE,
     alive |-> {}, killed |-> {}, returned |-> 0, interruptions |-> 0]

playFrame == <<baseVars, chat, st, wire, old, mic, slicer, lastVars>>

\* speakWithOSTTS: spawn of the platform's speech command
playSpawn(p, enableInterrupt) ==
    [p EXCEPT !.spawned = @ + 1,
              !.awaiting = p.spawned + 1,
              !.interruptible = enableInterrupt,
              !.alive = @ \cup {p.spawned + 1}]

\* chatMode calls safeSpeak(text, mute, useRealtime, enableInterrupt), not
\* muted: the plain path, or interruptibleSafeSpeak up to Promise.race
PlayStart(enableInterrupt) ==
    /\ play.awaiting = None
    /\ play.spawned < MaxPlaybacks
    /\ play' = playSpawn(play, enableInterrupt)
    /\ UNCHANGED playFrame

\* onTranscript with a long enough text while the call races: abort(); the
\* 'abort' listener of speakWithOSTTS signals the child and resolves at
\* once, and the call returns the transcript
PlayInterrupted ==
    /\ play.awaiting # None
    /\ play.interruptible
    /\ play' = [play EXCEPT !.killed = @ \cup {play.awaiting},
                            !.awaiting = None,
                            !.returned = @ + 1,
                            !.interruptions = @ + 1]
    /\ UNCHANGED playFrame

\* the 'exit' handler of child q. A call that still awaits it returns, or,
\* after a failure in interruptibleSafeSpeak, speaks the text again through
\* safeSpeak
PlayExit(q, ok) ==
    /\ q \in play.alive
    /\ LET gone == [play EXCEPT !.alive = @ \ {q}]
           again == play.awaiting = q /\ ~ok /\ play.interruptible
       IN  /\ again => play.spawned < MaxPlaybacks
           /\ play' = IF play.awaiting # q THEN gone
                      ELSE IF again THEN playSpawn(gone, FALSE)
                      ELSE [gone EXCEPT !.awaiting = None, !.returned = @ + 1]
    /\ UNCHANGED playFrame

PlaybackNext ==
    \/ \E enableInterrupt \in BOOLEAN : PlayStart(enableInterrupt)
    \/ PlayInterrupted
    \/ \E q \in play.alive, ok \in BOOLEAN : PlayExit(q, ok)

\* ------------------------------------------------------------------------
\* StreamRecorder's stdout handler: reads of any size in, chunks of
\* chunkSizeBytes out. The bytes of the stream are numbered 1, 2, 3, ...
\* ------------------------------------------------------------------------
\* the options of the constructor: low rates, which make short chunks
SampleRates == {500, 1000}
ChunkSizesMs == {1, 2}

\* constructor: Math.floor(sampleRate * channels * 2 * (chunkSizeMs / 1000)),
\* channels = 1
chunkSizeBytesOf(sampleRate, chunkSizeMs) ==
    (sampleRate * 1 * 2 * chunkSizeMs) \div 1000

NewSlicer(sampleRate, chunkSizeMs) ==
    [chunkSizeBytes |-> chunkSizeBytesOf(sampleRate, chunkSizeMs),
     buffer |-> <<>>, out |-> <<>>, fed |-> 0, cuts |-> {}, reads |-> 0, clock |-> 0]

\* buffer.subarray(start)
subarrayFrom_dropped(buffer, start) == <<>>

subarrayFrom(buffer, start) == SubSeq(buffer, start + 1, Len(buffer))

\* the while loop of the 'data' handler: the chunks emitted at time ts, and
\* what is left in buffer
RECURSIVE emitChunks(_, _, _)
emitChunks(buffer, size, ts) ==
    IF Len(buffer) >= size
    THEN LET chunk == SubSeq(buffer, 1, size)
             more == emitChunks(subarrayFrom(buffer, size), size, ts)
         IN  [out |-> <<[data |-> chunk, timestamp |-> ts]>> \o more.out,
              buffer |-> more.buffer]
    ELSE [out |-> <<>>, buffer |-> buffer]

\* stdout emits 'data' with n more bytes, dt ms after the read before
SlicerData(n, dt) ==
    /\ slicer.reads < MaxReads
    /\ LET data == [i \in 1 .. n |-> slicer.fed + i]
           ts == slicer.clock + dt
           res == emitChunks(slicer.buffer \o data, slicer.chunkSizeBytes, ts)
       IN  slicer' = [slicer EXCEPT !.buffer = res.buffer,
                                    !.out = @ \o res.out,
                                    !.fed = @ + n,
                                    !.cuts = @ \cup {slicer.fed + n},
                                    !.reads = @ + 1,
                                    !.clock = ts]
    /\ UNCHANGED <<baseVars, chat, st, wire, old, mic, play, lastVars>>

SlicerNext == \E n \in 1 .. MaxReadLen, dt \in {0, 1} : SlicerData(n, dt)

\* ------------------------------------------------------------------------
\* listenMode: the confirmation step of the single turn, from "Step 6" on;
\* one step runs the function up to its next await
\* ------------------------------------------------------------------------
NewListen ==
    [pc |-> "planned",              \* planned, confirming, reprompting, executing,
                                    \* cancelling, returned, exited
     requiresConfirmation |-> FALSE,
     calls |-> 0,                   \* calls of getConfirmation
     confirmations |-> <<>>,        \* what the calls resolved with, in order
     heard |-> <<>>,                \* what the user answered, in order
     executed |-> FALSE]            \* executeCommand was called

listenFrame == <<baseVars, chat, st, wire, old, mic, play, slicer, finReturn, vad,
                 link, ask>>

Cancels_noOnly(confirmation) == confirmation = "no"

\* if (confirmation === 'no' || confirmation === 'unclear')
Cancels(confirmation) == confirmation = "no" \/ confirmation = "unclear"

\* the statements after the last getConfirmation: cancel, or go on to Step 7
lmDecide(l, confirmation) ==
    IF Cancels(confirmation)
    THEN [l EXCEPT !.pc = "cancelling"]
    ELSE [l EXCEPT !.pc = "executing", !.executed = TRUE]

\* Step 6 is reached with the plan's requiresConfirmation
LmPlanned(requiresConfirmation) ==
    /\ listen.pc = "planned"
    /\ listen' = IF requiresConfirmation
                 THEN [listen EXCEPT !.requiresConfirmation = TRUE,
                                     !.pc = "confirming",
                                     !.calls = @ + 1]
                 ELSE [listen EXCEPT !.pc = "executing", !.executed = TRUE]
    /\ UNCHANGED listenFrame

\* a getConfirmation call resolves
LmConfirmed(answer) ==
    LET confirmation == getConfirmation(answer)
        l == [listen EXCEPT !.confirmations = Append(@, confirmation),
                            !.heard = Append(@, answer)]
    IN  /\ listen.pc = "confirming"
        /\ listen' = IF listen.calls = 1 /\ confirmation = "unclear"
                     THEN [l EXCEPT !.pc = "reprompting"]
                     ELSE lmDecide(l, confirmation)
        /\ UNCHANGED listenFrame

\* speak(unclearText) settles: "Try once more", or the catch of the function
LmReprompted(ok) ==
    /\ listen.pc = "reprompting"
    /\ listen' = IF ok
                 THEN [listen EXCEPT !.pc = "confirming", !.calls = @ + 1]
                 ELSE [listen EXCEPT !.pc = "exited"]
    /\ UNCHANGED listenFrame

\* speak(cancelledText) settles
LmCancelled(ok) ==
    /\ listen.pc = "cancelling"
    /\ listen' = [listen EXCEPT !.pc = IF ok THEN "returned" ELSE "exited"]
    /\ UNCHANGED listenFrame

\* executeCommand, summarize and speak settle
LmExecuted(ok) ==
    /\ listen.pc = "executing"
    /\ listen' = [listen EXCEPT !.pc = IF ok THEN "returned" ELSE "exited"]
    /\ UNCHANGED listenFrame

ListenNext ==
    \/ \E requiresConfirmation \in BOOLEAN : LmPlanned(requiresConfirmation)
    \/ \E answer \in Answers : LmConfirmed(answer)
    \/ \E ok \in BOOLEAN : LmReprompted(ok)
    \/ \E ok \in BOOLEAN : LmCancelled(ok)
    \/ \E ok \in BOOLEAN : LmExecuted(ok)

\* ------------------------------------------------------------------------
\* StreamingSTTClient.isSpeech on the bytes of a chunk. A chunk is a
\* sequence of bytes; the sum of the squares of its samples stays below 2^31
\* ------------------------------------------------------------------------
\* the 16-bit values the samples of a chunk are taken from
SampleValues == {-32768, -801, -800, -1, 0, 1, 800, 801, 32767}

\* the values setSpeechThreshold is given: RMS energies
Thresholds == {0, 1, SpeechEnergyThreshold}

\* Buffer.writeInt16LE: the two bytes of a sample, low byte first
BytesOf(sample) ==
    LET u == IF sample < 0 THEN sample + 65536 ELSE sample
    IN  <<u % 256, u \div 256>>

RECURSIVE Pcm16(_)
Pcm16(samples) ==
    IF samples = <<>> THEN <<>> ELSE BytesOf(Head(samples)) \o Pcm16(Tail(samples))

\* the sample sequences of a chunk: the last sample of a full chunk is not
\* -32768, which keeps the sum of squares within the integers of the model
SampleSeqs ==
    {<<>>} \cup {<<a>> : a \in SampleValues}
    \cup {<<a, b>> : a \in SampleValues, b \in SampleValues \ {-32768}}

readInt16LE_bigEndian(chunk, i) ==
    LET u == 256 * chunk[i + 1] + chunk[i + 2]
    IN  IF u >= 32768 THEN u - 65536 ELSE u

\* chunk.readInt16LE(i), i counted from 0
readInt16LE(chunk, i) ==
    LET u == chunk[i + 1] + 256 * chunk[i + 2]
    IN  IF u >= 32768 THEN u - 65536 ELSE u

\* for (let i = 0; i < chunk.length - 1; i += 2) sumSquares += sample * sample
RECURSIVE sumSquaresFrom(_, _)
sumSquaresFrom(chunk, i) ==
    IF i < Len(chunk) - 1
    THEN readInt16LE(chunk, i) * readInt16LE(chunk, i) + sumSquaresFrom(chunk, i + 2)
    ELSE 0

\* Math.sqrt(sumSquares / sampleCount) > threshold, on integers
rmsExceeds(sumSquares, sampleCount, threshold) ==
    threshold < 0 \/ sumSquares > threshold * threshold * sampleCount

\* isSpeech(chunk): calculateChunkEnergy(chunk) > this.speechEnergyThreshold
isSpeechOfBytes(chunk, threshold) ==
    IF Len(chunk) < 2
    THEN 0 > threshold
    ELSE rmsExceeds(sumSquaresFrom(chunk, 0), Len(chunk) \div 2, threshold)

NewVad ==
    [speechEnergyThreshold |-> SpeechEnergyThreshold,
     calls |-> 0,
     last |-> [samples |-> <<>>, chunk |-> <<>>, threshold |-> SpeechEnergyThreshold,
               result |-> FALSE]]

vadFrame == <<baseVars, chat, st, wire, old, mic, play, slicer, listen, finReturn,
              link, ask>>

\* setSpeechThreshold(threshold)
VadSetSpeechThreshold(threshold) ==
    /\ vad' = [vad EXCEPT !.speechEnergyThreshold = threshold]
    /\ UNCHANGED vadFrame

\* isSpeech(chunk), on the chunk of the samples and, if odd is a byte, one
\* more byte
VadIsSpeech(samples, odd) ==
    LET chunk == Pcm16(samples) \o (IF odd = None THEN <<>> ELSE <<odd>>)
    IN  /\ vad' = [vad EXCEPT !.calls = 1,
                              !.last = [samples |-> samples, chunk |-> chunk,
                                        threshold |-> vad.speechEnergyThreshold,
                                        result |-> isSpeechOfBytes(chunk,
                                                       vad.speechEnergyThreshold)]]
        /\ UNCHANGED vadFrame

VadNext ==
    \/ \E threshold \in Thresholds : VadSetSpeechThreshold(threshold)
    \/ \E samples \in SampleSeqs, odd \in {None, 0, 255} : VadIsSpeech(samples, odd)

\* ---------------------------------------------------------------------
\* connect() of the two WebSocket clients, RealtimeSTTConnection and
\* RealtimeScribeClient: the sockets it creates and the promises it returns

MaxSockets == 2
MaxConnects == 3

LinkKinds == {"RealtimeSTTConnection", "RealtimeScribeClient"}

NewLink ==
    [kind |-> "none",
     onError |-> FALSE,     \* config.onError is configured
     ws |-> None,           \* this.ws: the index of the socket in sockets
     isConnected |-> FALSE,
     sockets |-> <<>>,      \* every WebSocket created so far
     promises |-> <<>>,     \* every promise returned by connect() so far
     onErrorCalls |-> 0,
     extraSockets |-> 0]    \* sockets created while an earlier connect() was pending

linkFrame == <<baseVars, chat, st, wire, old, mic, play, slicer, listen, finReturn,
               vad, ask>>

\* new RealtimeSTTConnection(config) / new RealtimeScribeClient(options)
LinkCreated(kind, onError) ==
    /\ link.kind = "none"
    /\ link' = [link EXCEPT !.kind = kind, !.onError = onError]
    /\ UNCHANGED linkFrame

\* the guard at the head of connect()
connectReturnsAtOnce(l) ==
    IF l.kind = "RealtimeSTTConnection"
    THEN l.isConnected /\ l.ws # None
    ELSE l.ws # None

\* resolve() or reject() of the promise whose executor created socket s
settle(promises, s, state, open) ==
    [i \in DOMAIN promises |->
        IF promises[i].sock = s /\ promises[i].state = "pending"
        THEN [promises[i] EXCEPT !.state = state, !.openAtSettle = open]
        ELSE promises[i]]

LinkConnect(hasKey) ==
    /\ link.kind # "none"
    /\ Len(link.promises) < MaxConnects
    /\ IF connectReturnsAtOnce(link)
       THEN link' = [link EXCEPT !.promises = Append(@,
                        [state |-> "resolved", sock |-> link.ws, atOnce |-> TRUE,
                         openAtSettle |-> link.sockets[link.ws].readyState = "open"])]
       ELSE IF ~hasKey
       THEN link' = [link EXCEPT !.promises = Append(@,
                        [state |-> "rejected", sock |-> None, atOnce |-> TRUE,
                         openAtSettle |-> FALSE])]
       ELSE /\ Len(link.sockets) < MaxSockets
            /\ link' = [link EXCEPT
                    !.sockets = Append(@, [readyState |-> "connecting",
                                           failedBeforeOpen |-> FALSE]),
                    !.ws = Len(link.sockets) + 1,
                    !.extraSockets =
                        IF \E i \in DOMAIN link.promises :
                               link.promises[i].state = "pending"
                        THEN @ + 1 ELSE @,
                    !.promises = Append(@,
                        [state |-> "pending", sock |-> Len(link.sockets) + 1,
                         atOnce |-> FALSE, openAtSettle |-> FALSE])]
    /\ UNCHANGED linkFrame

\* the 'open' handler
LinkOpen(s) ==
    /\ link.sockets[s].readyState = "connecting"
    /\ link' = [link EXCEPT
            !.sockets[s].readyState = "open",
            !.isConnected = IF link.kind = "RealtimeSTTConnection" THEN TRUE ELSE @,
            !.promises = settle(@, s, "resolved", TRUE)]
    /\ UNCHANGED linkFrame

\* the 'error' handler; the socket emits 'close' next
LinkError(s) ==
    /\ link.sockets[s].readyState \in {"connecting", "open"}
    /\ LET rejects == link.kind = "RealtimeScribeClient" \/ ~link.onError
       IN  link' = [link EXCEPT
               !.sockets[s].readyState = "closing",
               !.sockets[s].failedBeforeOpen = link.sockets[s].readyState = "connecting",
               !.isConnected = IF link.kind = "RealtimeSTTConnection" THEN FALSE ELSE @,
               !.onErrorCalls = IF rejects THEN @ ELSE @ + 1,
               !.promises = IF rejects THEN settle(@, s, "rejected", FALSE) ELSE @]
    /\ UNCHANGED linkFrame

\* the 'close' handler
LinkClosed(s) ==
    /\ link.sockets[s].readyState \in {"open", "closing"}
    /\ link' = [link EXCEPT
            !.sockets[s].readyState = "closed",
            !.isConnected = IF link.kind = "RealtimeSTTConnection" THEN FALSE ELSE @,
            !.ws = IF link.kind = "RealtimeScribeClient" THEN None ELSE @]
    /\ UNCHANGED linkFrame

LinkNext ==
    \/ \E kind \in LinkKinds, onError \in BOOLEAN : LinkCreated(kind, onError)
    \/ \E hasKey \in BOOLEAN : LinkConnect(hasKey)
    \/ \E s \in DOMAIN link.sockets : LinkOpen(s)
    \/ \E s \in DOMAIN link.sockets : LinkError(s)
    \/ \E s \in DOMAIN link.sockets : LinkClosed(s)

\* ---------------------------------------------------------------------
\* getConfirmation: the typed listener and the voice capture race for one
\* promise

MaxAsks == 3

Keys == {<<"y">>, <<"Y">>, <<"n">>, <<"N">>, <<"x">>, <<"\r">>}

NewAsk ==
    [pc |-> "idle",
     useVoice |-> FALSE,
     isTTY |-> FALSE,
     resolved |-> FALSE,
     typedHandler |-> FALSE,    \* typedHandler is a 'data' listener of stdin
     enterHandler |-> FALSE,    \* enterHandler is a 'data' listener of stdin
     voice |-> "none",          \* the async voice block: none, running, done
     heard |-> <<>>,            \* the transcript the voice capture returned
     resolveCalls |-> 0,        \* calls of resolve() in this call
     result |-> "none",         \* what the promise resolved with
     first |-> "none",          \* what the input that arrived first stands for
     late |-> FALSE,            \* an input arrived after the resolution
     calls |-> 0]

askFrame == <<baseVars, chat, st, wire, old, mic, play, slicer, listen, finReturn,
              vad, link>>

\* the test every handler makes before it resolves
askUnresolved_ignored(a) == TRUE

askUnresolved(a) == ~a.resolved

\* resolve(value): a promise keeps the value of the first call
askResolve(a, value) ==
    [a EXCEPT !.resolveCalls = @ + 1,
              !.result = IF a.resolveCalls = 0 THEN value ELSE @,
              !.pc = "resolved"]

\* an input that stands for value has arrived
askArrived(a, value) ==
    [a EXCEPT !.first = IF @ = "none" THEN value ELSE @,
              !.late = @ \/ a.pc = "resolved"]

\* getConfirmation(options) up to the return of the promise; the earlier
\* call has resolved and its voice block, which acts on its own variables,
\* has ended
AskCall(useVoice, isTTY) ==
    /\ ask.pc = "idle" \/ (ask.pc = "resolved" /\ ask.voice # "running")
    /\ ask.calls < MaxAsks
    /\ LET a == [NewAsk EXCEPT !.pc = "pending",
                               !.useVoice = useVoice,
                               !.isTTY = isTTY,
                               !.typedHandler = isTTY,
                               !.enterHandler = ~useVoice /\ isTTY,
                               !.voice = IF useVoice THEN "running" ELSE "none",
                               !.calls = ask.calls + 1]
       IN  ask' = IF ~useVoice /\ ~isTTY
                  THEN askResolve(askArrived(a, "unclear"), "unclear")
                  ELSE a
    /\ UNCHANGED askFrame

\* a 'data' event of stdin: typedHandler, then enterHandler
AskKey(key) ==
    /\ ask.pc # "idle"
    /\ ask.typedHandler \/ ask.enterHandler
    /\ LET lower == toLowerCase(key)
           typed == IF lower = <<"y">> THEN "yes"
                    ELSE IF lower = <<"n">> THEN "no"
                    ELSE "none"
           a1 == IF ask.typedHandler /\ typed # "none"
                 THEN (IF askUnresolved(ask)
                       THEN askResolve([askArrived(ask, typed) EXCEPT
                                           !.resolved = TRUE,
                                           !.typedHandler = FALSE], typed)
                       ELSE askArrived(ask, typed))
                 ELSE ask
           a2 == IF a1.enterHandler /\ key = <<"\r">>
                 THEN (IF askUnresolved(a1)
                       THEN askResolve([askArrived(a1, "unclear") EXCEPT
                                           !.resolved = TRUE,
                                           !.typedHandler = FALSE,
                                           !.enterHandler = FALSE], "unclear")
                       ELSE askArrived(a1, "unclear"))
                 ELSE a1
       IN  ask' = a2
    /\ UNCHANGED askFrame

\* the voice block after its await: the transcript, or the catch branch
askVoiceSettled(a, value) ==
    IF askUnresolved(a)
    THEN askResolve([askArrived(a, value) EXCEPT
                        !.resolved = TRUE,
                        !.typedHandler = IF a.typedHandler /\ a.isTTY THEN FALSE ELSE @],
                   value)
    ELSE askArrived(a, value)

AskVoiceDone(transcript) ==
    /\ ask.voice = "running"
    /\ ask' = [askVoiceSettled(ask, parseConfirmation(transcript)) EXCEPT
                    !.voice = "done", !.heard = transcript]
    /\ UNCHANGED askFrame

AskVoiceFailed ==
    /\ ask.voice = "running"
    /\ ask' = [askVoiceSettled(ask, "unclear") EXCEPT !.voice = "done"]
    /\ UNCHANGED askFrame

AskNext ==
    \/ \E useVoice, isTTY \in BOOLEAN : AskCall(useVoice, isTTY)
    \/ \E key \in Keys : AskKey(key)
    \/ \E transcript \in Utterances \cup {<<>>} : AskVoiceDone(transcript)
    \/ AskVoiceFailed

CoordInit ==
    /\ conn = NewConnection
    /\ cap = NewCapture
    /\ pc = "idle"
    /\ sttConnection = Null
    /\ audioCleanup = Null
    /\ resolved = FALSE
    /\ aborted = FALSE
    /\ tts = "none"
    /\ outcome = Pending
    /\ resolveCalls = 0
    /\ cleanupCalls = 0
    /\ chunkEvents = 0
    /\ msgCount = 0
    /\ lastCallback = NoCallback
    /\ decidedBy = "none"
    /\ maxRecordingTime = FALSE
    /\ timeoutHandle = FALSE
    /\ batchRuns = 0

TeardownInit ==
    /\ rec = NewRecorder
    /\ scribe = NewScribe

\* chatMode has been entered, live transcription is the default
ChatIdle == chat = NewChat(TRUE)
\* no streamTranscribe call yet beyond its set-up
StreamIdle == st = NewStream
\* the recorder of streamTranscribe's defaults scaled down: chunks of 2 bytes
SlicerIdle == slicer = NewSlicer(1000, 1)
LastInit ==
    /\ listen = NewListen /\ finReturn = "none" /\ vad = NewVad
    /\ link = NewLink /\ ask = NewAsk
MoreInit == mic = NewMic /\ play = NewPlay /\ SlicerIdle /\ LastInit
ExtInit ==
    /\ ChatIdle /\ StreamIdle /\ wire = NewWire /\ old = NewOldChat(TRUE)
    /\ MoreInit
Init == SttInit /\ CoordInit /\ TeardownInit /\ ExtInit
\* chatMode with options.live either way
ChatInit ==
    /\ SttInit /\ CoordInit /\ TeardownInit
    /\ chat \in {NewChat(live) : live \in BOOLEAN}
    /\ StreamIdle /\ wire = NewWire /\ old = NewOldChat(TRUE)
    /\ MoreInit
Next == SttNext
Spec == Init /\ [][Next]_vars
SpecChunks == Init /\ [][ChunksNext]_vars
SpecPaced == Init /\ [][PacedNext]_vars
SpecSpeak == Init /\ [][SpeakNext]_vars
SpecTurn == Init /\ [][TurnNext]_vars
SpecTeardown == Init /\ [][TeardownNext]_vars
SpecChat == ChatInit /\ [][ChatNext]_vars
SpecStream == Init /\ [][StreamNext]_vars
SpecMessages == Init /\ [][WireNext]_vars
\* streamTranscribe with what its environment is sure to do: start() settles,
\* timers fire, the backend answers, transcribe and recordAudio end, and a
\* process that stop() has signalled exits. The user and the microphone
\* are free
StreamFairness ==
    /\ WF_vars(\E ok \in BOOLEAN : StStart(ok))
    /\ WF_vars(StSilenceTimer)
    /\ WF_vars(StPartialTimer)
    /\ WF_vars(\E r \in st.inflight, resp \in StreamResponses : StResponse(r, resp))
    /\ WF_vars(StFinalizeTimeout)
    /\ WF_vars(\E text \in {<<>>, <<"h", "i">>} : StCleanupDone(text))
    /\ WF_vars(\E ok \in BOOLEAN : StFallbackDone(ok))
    /\ WF_vars(st.ffmpegProcess = Null
                  /\ \E code \in {"zero", "nonzero", "signal"} : StRecorderExit(code))
SpecStreamLive == Init /\ [][StreamNext]_vars /\ StreamFairness
\* the older chatMode with useRealtime either way
OldChatInit ==
    /\ SttInit /\ CoordInit /\ TeardownInit
    /\ ChatIdle /\ StreamIdle /\ wire = NewWire
    /\ old \in {NewOldChat(useRealtime) : useRealtime \in BOOLEAN}
    /\ MoreInit
SpecOldChat == OldChatInit /\ [][OldChatNext]_vars
SpecCapture == Init /\ [][CaptureNext]_vars
SpecPlayback == Init /\ [][PlaybackNext]_vars
\* a StreamRecorder constructed with any of the options
SlicerInit ==
    /\ SttInit /\ CoordInit /\ TeardownInit
    /\ ChatIdle /\ StreamIdle /\ wire = NewWire /\ old = NewOldChat(TRUE)
    /\ mic = NewMic /\ play = NewPlay /\ LastInit
    /\ slicer \in {NewSlicer(sampleRate, chunkSizeMs) :
                      sampleRate \in SampleRates, chunkSizeMs \in ChunkSizesMs}
SpecSlicer == SlicerInit /\ [][SlicerNext]_vars
SpecListen == Init /\ [][ListenNext]_vars
SpecVad == Init /\ [][VadNext]_vars

SpecLink == Init /\ [][LinkNext]_vars

SpecAsk == Init /\ [][AskNext]_vars

\* ------------------------------------------------------------------------
\* Properties of StreamingSTTClient
\* ------------------------------------------------------------------------
AudioIds(audio) == {audio[i].id : i \in DOMAIN audio}

SilenceOnly(audio) == audio # <<>> /\ \A i \in DOMAIN audio : ~audio[i].speech

FinalizeTriggeredOn(buf) ==
    \/ \E r \in inflight : r.isFinal /\ r.audio = buf
    \/ \E i \in DOMAIN events : events[i].isFinal /\ events[i].audio = buf

\* C1: per utterance (the audio buffered between two clears) at most one
\* 'final' event is emitted and it is the last transcript event: after a
\* 'final', no 'partial' and no second 'final' is emitted for audio that the
\* final already covered.
C1_OneFinalAndLast ==
    \A i, j \in DOMAIN events :
        (i < j /\ events[i].type = "final" /\ events[j].type \in {"partial", "final"})
            => AudioIds(events[i].audio) \cap AudioIds(events[j].audio) = {}

C4_TimerInv ==
    ( /\ isConnected
      /\ spoke
      /\ audioBuffer # <<>>
      /\ now - lastSpeechTime >= minSilenceMs
      /\ ~TimerDue(silenceTimeout) )
        => FinalizeTriggeredOn(audioBuffer)

C4_NoiseStep ==
    (chunkCount' = chunkCount + 1 /\ ~audioBuffer'[Len(audioBuffer')].speech)
        => /\ lastSpeechTime' = lastSpeechTime
           /\ (spoke /\ now - lastSpeechTime >= minSilenceMs)
                 => \E r \in inflight' \ inflight :
                        r.isFinal /\ r.audio = audioBuffer'

\* C4: after speech, with a non-empty buffer, a finalize is requested as soon
\* as minSilenceMs have passed since the last speech-classified chunk: by the
\* first non-speech chunk handled at or after that time, or by the silence
\* timer when it is due; a non-speech chunk never moves lastSpeechTime.
C4_SilenceTriggersFinalize == [] C4_TimerInv /\ [][C4_NoiseStep]_vars

C4_Witness ==
    /\ isConnected
    /\ spoke
    /\ Len(audioBuffer) >= 2
    /\ audioBuffer[1].speech
    /\ ~audioBuffer[Len(audioBuffer)].speech
    /\ now - lastSpeechTime >= minSilenceMs
    /\ \E r \in inflight : r.isFinal /\ r.audio = audioBuffer

C5_Step ==
    \A r \in inflight \ inflight' :
        (r.isFinal /\ SilenceOnly(r.audio) /\ lastDone'.ok /\ lastDone'.text = <<>>)
            => events' = Append(events, TranscriptEvent("final", TRUE, <<>>, r.audio))

\* C5: when a final request on a buffer of silence-classified chunks only is
\* answered with empty text, exactly one event is emitted for it, a 'final'
\* with text '': no 'error' event, and the event is not dropped.
C5_EmptyFinalPropagates == [][C5_Step]_vars

C5_Witness ==
    \E i \in DOMAIN events :
        /\ events[i].type = "final"
        /\ events[i].text = <<>>
        /\ SilenceOnly(events[i].audio)

\* ------------------------------------------------------------------------
\* Properties of interruptibleSafeSpeak
\* ------------------------------------------------------------------------
TranscriptDelivered ==
    msgCount' = msgCount + 1 /\ lastCallback'.kind = "transcript"

LongEnough(text) == Len(Trim(text)) > MinInterruptLen

Interrupted(text) ==
    /\ aborted'
    /\ tts' = "killed"
    /\ pc' = "returned"
    /\ outcome' = TranscriptResult(Trim(text))

C2_StepAsStated ==
    (TranscriptDelivered /\ LongEnough(lastCallback'.text) /\ tts = "playing")
        => Interrupted(lastCallback'.text)

\* C2 as stated: whenever a transcript whose trimmed length exceeds 2 is
\* delivered while the playback child is still playing, the abort signal is
\* fired, the child is killed before it ends by itself, and the function
\* returns the trimmed transcript, not null.
C2_InterruptWheneverPlaying == [][C2_StepAsStated]_vars

C2_Step ==
    (TranscriptDelivered /\ LongEnough(lastCallback'.text) /\ tts = "playing"
        /\ ~resolved)
        => Interrupted(lastCallback'.text)

\* C2 amended: a transcript whose trimmed length exceeds 2, delivered while
\* the playback child is still playing and the race is not yet decided
\* (resolved is false), fires the abort signal, kills the child before it ends
\* by itself, and makes the function return the trimmed transcript, not null.
C2_InterruptWins == [][C2_Step]_vars

C2_Witness ==
    /\ lastCallback.kind = "transcript"
    /\ ~lastCallback.late
    /\ Len(lastCallback.text) > Len(Trim(lastCallback.text))
    /\ aborted
    /\ tts = "killed"
    /\ pc = "returned"
    /\ outcome = TranscriptResult(Trim(lastCallback.text))

C3_Step ==
    (TranscriptDelivered /\ ~LongEnough(lastCallback'.text))
        => UNCHANGED <<aborted, resolved, resolveCalls, outcome, pc, tts>>

\* C3: a transcript that is empty or whose trimmed length is 2 or less never
\* fires the abort signal, never sets resolved, and never makes the function
\* return: the playback child is left as it is.
C3_ShortTranscriptIgnored == [][C3_Step]_vars

C3_Witness ==
    /\ lastCallback.kind = "transcript"
    /\ Len(lastCallback.text) > MinInterruptLen
    /\ ~LongEnough(lastCallback.text)
    /\ tts = "playing"
    /\ pc = "racing"
    /\ ~resolved
    /\ ~aborted

FunctionReturned == pc \in {"batch", "returned"}

\* C8: once interruptibleSafeSpeak (or transcribeRealtime) has returned, the
\* capture cleanup ran exactly once if a capture process was spawned, the
\* connection's close() ran exactly once, no capture process is alive and the
\* socket is not open.
C8_TeardownOnEveryExit ==
    FunctionReturned =>
        /\ cleanupCalls <= 1
        /\ HasPid(cap) => cleanupCalls = 1
        /\ conn.closeCalls = 1
        /\ ~CaptureAlive(cap)
        /\ ~SocketOpen(conn)

C9_Step ==
    resolved =>
        /\ resolved'
        /\ conn'.sent = conn.sent
        /\ aborted' = aborted
        /\ resolveCalls' = resolveCalls
        /\ outcome # Pending => outcome' = outcome

\* C9: once resolved is true, no step forwards a chunk to the connection,
\* fires the abort signal, resolves the interruption promise again or changes
\* the value the function returned.
C9_FirstDecisionWins == [][C9_Step]_vars

C9_Witness ==
    /\ resolved
    /\ pc = "returned"
    /\ lastCallback.late
    /\ lastCallback.kind = "transcript"
    /\ LongEnough(lastCallback.text)
    /\ tts = "playing"

ListenFailures == {"sttError", "audioError", "catch"}

\* C10: when the race was decided by a failure of the listening pipeline (an
\* STT error, an audio-stream error, or the .catch of connect()), the abort
\* signal is not fired, the playback child is not killed, and the function
\* returned null: no exception.
C10_ListenFailureKeepsPlayback ==
    decidedBy \in ListenFailures =>
        /\ ~aborted
        /\ tts # "killed"
        /\ pc = "returned"
        /\ outcome = NullResult

C10_Witness ==
    /\ decidedBy = "sttError"
    /\ lastCallback.kind = "tts"
    /\ tts = "done"
    /\ outcome = NullResult

\* ------------------------------------------------------------------------
\* Properties of the chat turn and of the teardown calls
\* ------------------------------------------------------------------------
\* C6: when connect() failed in the turn (the socket emitted 'error' while
\* connecting), exactly one batch fallback was started, no exception escaped
\* the loop, no capture process was started and the socket is not open.
C6_ConnectFailureFallsBack ==
    decidedBy = "connectError" =>
        /\ batchRuns = 1
        /\ pc \in {"batch", "returned"}
        /\ outcome.kind # "escaped"
        /\ cap.state = "idle"
        /\ ~SocketOpen(conn)

C6_Witness ==
    /\ decidedBy = "connectError"
    /\ pc = "returned"
    /\ outcome.kind = "batch"
    /\ batchRuns = 1
    /\ conn.closeCalls = 1

\* C7: however often stop() and close() are called, the recorder's process
\* gets at most one kill signal, and each socket gets at most one close() and
\* at most one commit message of close().
C7_RepeatedTeardownIsNoop ==
    /\ rec.sigterm + rec.sigkill <= 1
    /\ conn.wsCloseCalls <= 1
    /\ scribe.wsCloseCalls <= 1
    /\ scribe.commits <= 1

C7_Witness ==
    /\ rec.stopCalls = 2
    /\ rec.sigterm = 1
    /\ conn.closeCalls = 2
    /\ conn.wsCloseCalls = 1
    /\ scribe.closeCalls = 2
    /\ scribe.wsCloseCalls = 1
    /\ scribe.commits = 1

\* ------------------------------------------------------------------------
\* Properties of the session loop
\* ------------------------------------------------------------------------
\* the step is one iteration of the loop
ChatIterated == chat'.iterations = chat.iterations + 1

\* the utterances that tell the assistant to end the session
ExitDirectives == {Say.exit, Say.bye}

\* C11: at the head of every iteration pendingAction is set exactly when the
\* state is AWAITING_CONFIRMATION; it is set only by the step that enters
\* that state, and it is null after every step that leaves it (confirmed,
\* cancelled, execution failed).
C11_PendingIffAwaiting ==
    /\ [](chat.pendingAction # Null <=> chat.currentState = "AWAITING_CONFIRMATION")
    /\ [][/\ (chat'.pendingAction # chat.pendingAction /\ chat'.pendingAction # Null)
              => /\ chat.currentState = "LISTENING_FOR_COMMAND"
                 /\ chat'.currentState = "AWAITING_CONFIRMATION"
          /\ (/\ chat.currentState = "AWAITING_CONFIRMATION"
              /\ chat'.currentState # "AWAITING_CONFIRMATION")
              => chat'.pendingAction = Null]_vars

C11_Witness ==
    /\ chat.lastIteration.branch = "confirm"
    /\ chat.lastIteration.confirmation = "yes"
    /\ chat.lastIteration.failure = "executor"
    /\ chat.currentState = "LISTENING_FOR_COMMAND"
    /\ chat.pendingAction = Null

\* C12: an iteration in AWAITING_CONFIRMATION that gets 'yes' calls
\* executeCommand once, on the pending action, and goes to
\* LISTENING_FOR_COMMAND, also when the execution throws; 'no' executes
\* nothing and goes to LISTENING_FOR_COMMAND; 'unclear' executes nothing and
\* keeps the state and the pending action. No command that requires
\* confirmation is executed without a 'yes'.
C12_ConfirmationDecides ==
    /\ [](\A i \in DOMAIN chat.executed :
             chat.executed[i].requiresConfirmation
                 => chat.executed[i].confirmation = "yes")
    /\ [][(ChatIterated /\ chat.currentState = "AWAITING_CONFIRMATION")
          => CASE chat'.lastIteration.confirmation = "yes" ->
                    /\ Len(chat'.executed) = Len(chat.executed) + 1
                    /\ SubSeq(chat'.executed, 1, Len(chat.executed)) = chat.executed
                    /\ chat'.executed[Len(chat'.executed)].intent = chat.pendingAction
                    /\ chat'.currentState = "LISTENING_FOR_COMMAND"
               [] chat'.lastIteration.confirmation = "no" ->
                    /\ chat'.executed = chat.executed
                    /\ chat'.currentState = "LISTENING_FOR_COMMAND"
               [] chat'.lastIteration.confirmation = "unclear" ->
                    /\ chat'.executed = chat.executed
                    /\ chat'.currentState = "AWAITING_CONFIRMATION"
                    /\ chat'.pendingAction = chat.pendingAction
               [] OTHER -> FALSE]_vars

C12_Witness ==
    /\ chat.lastIteration.branch = "confirm"
    /\ chat.lastIteration.confirmation = "unclear"
    /\ chat.lastIteration.heard = Say.help
    /\ chat.currentState = "AWAITING_CONFIRMATION"
    /\ chat.pendingAction = "MAKE_COMMIT"
    /\ chat.executed = <<>>

\* C13: an iteration that hears an exit directive, and meets no failure,
\* ends the session, whatever the state it started in.
C13_ExitDirectiveEnds ==
    [][(/\ ChatIterated
        /\ chat'.lastIteration.heard \in ExitDirectives
        /\ chat'.lastIteration.failure = "none")
       => ~chat'.running]_vars

\* C14: the loop ends only in an iteration that heard an exit directive; an
\* iteration in which the capture, the fallback, the planner, the
\* dispatcher, the executor or the speech output failed leaves it running.
C14_FailureKeepsLoop ==
    [][ChatIterated
       => /\ ~chat'.running => chat'.lastIteration.heard \in ExitDirectives
          /\ (/\ chat'.lastIteration.failure # "none"
              /\ chat'.lastIteration.heard \notin ExitDirectives) => chat'.running]_vars

C14_Witness ==
    /\ chat.lastIteration.branch = "listen"
    /\ chat.lastIteration.failure = "streamAndBatch"
    /\ chat.iterations = 1
    /\ chat.running

\* ------------------------------------------------------------------------
\* Properties of streamTranscribe
\* ------------------------------------------------------------------------
\* C15: one streamTranscribe call starts its batch fallback at most once,
\* however many 'error' events arrive, and the call and its caller's catch
\* together make at most one fallback recording.
C15_OneFallback ==
    /\ st.fallbackRuns <= 1
    /\ st.fallbackRuns + st.callerFallbacks <= 1

\* C16: the step that emits a 'final' event, whose handler stops the
\* recorder and so runs the 'stop' handler and finalize(), sends no
\* further final request to the backend.
C16_FinalRequestedOnce ==
    [][Len(st'.finals) > Len(st.finals) => st'.issued = st.issued]_vars

\* C17: the promise of finalize() is never rejected.
C17_FinalizeNeverRejects == st.finalize # "rejected"

\* ------------------------------------------------------------------------
\* Properties of the message handlers
\* ------------------------------------------------------------------------
\* C18: whatever its other fields, a message tagged partial_transcript is
\* never handed on as final and a message tagged committed_transcript is
\* never handed on as partial, by either client.
C18_TagDecides ==
    \A log \in {wire.conn, wire.scribe} :
        \A i \in DOMAIN log :
            /\ log[i].tag = "partial_transcript" => ~log[i].isFinal
            /\ log[i].tag = "committed_transcript" => log[i].isFinal

\* C19: when the 500 ms timer set by StreamRecorder.stop() fires and the
\* ffmpeg process that got the SIGTERM has not exited, the process is sent
\* SIGKILL.
C19_ForceKillAfterGrace ==
    [][(rec.killTimer /\ ~rec'.killTimer /\ rec.alive)
       => rec'.sigkill = rec.sigkill + 1]_vars

\* ------------------------------------------------------------------------
\* Properties of the older session loop
\* ------------------------------------------------------------------------
\* C20: when an iteration ended with an interrupting transcript, the next
\* iteration hands that transcript to the planner and makes no recording.
C20_InterruptionIsNextInput ==
    [][(old.interruption # <<>> /\ old'.iterations = old.iterations + 1)
       => /\ old'.planned
          /\ old'.input = old.interruption
          /\ old'.recordings = 0]_vars

\* ------------------------------------------------------------------------
\* Properties of the capture subprocesses
\* ------------------------------------------------------------------------
\* C21: a StreamRecorder never has two live ffmpeg processes, and the
\* capture that getConfirmation started has ended when the capture of the
\* next turn starts.
C21_OneCapture ==
    /\ Cardinality(mic.alive) <= 1
    /\ ~(mic.turnCapture /\ mic.gcCapture = "running")

\* ------------------------------------------------------------------------
\* Properties of the playback subprocesses
\* ------------------------------------------------------------------------
\* C22: at most one speech process runs at any time: no playback starts
\* while the process of an earlier call is still alive.
C22_OnePlayback == Cardinality(play.alive) <= 1

\* ------------------------------------------------------------------------
\* Properties of the message handlers: empty finals, late partials
\* ------------------------------------------------------------------------
\* C23: a committed transcript whose text is empty is handed on by the
\* client that received it, as a final with the text ''.
C23_EmptyFinalDelivered ==
    (wire.last.tag = "committed_transcript" /\ Trim(wire.last.text) = <<>>)
    => LET log == IF wire.last.by = "conn" THEN wire.conn ELSE wire.scribe
       IN  /\ log # <<>>
           /\ log[Len(log)].isFinal
           /\ log[Len(log)].text = <<>>

\* C24: on a connection, which serves one utterance, no partial is handed
\* on after a final has been, and currentPartialText stays '' from the
\* final on.
C24_NoPartialAfterFinal ==
    /\ \A log \in {wire.conn, wire.scribe} :
           \A i, j \in DOMAIN log : (i < j /\ log[i].isFinal) => log[j].isFinal
    /\ (\E i \in DOMAIN wire.scribe : wire.scribe[i].isFinal)
       => wire.currentPartialText = <<>>

\* ------------------------------------------------------------------------
\* Properties of the finalize timers of StreamingSTTClient
\* ------------------------------------------------------------------------
\* the time by which a pending timer finalizes the utterance: the silence
\* timer is the only timer of the client and of streamTranscribe that does
FinalizeDeadline == silenceTimeout

\* C25: a capture is finalized within a bounded time of its start, also
\* when every chunk is speech: a chunk never moves the time by which a
\* pending timer finalizes the utterance to a later time.
C25_BackstopNotPostponed ==
    [][(chunkCount' = chunkCount + 1 /\ FinalizeDeadline # None)
       => \/ requestCount' = requestCount + 1
          \/ FinalizeDeadline' # None /\ FinalizeDeadline' <= FinalizeDeadline]_vars

\* ------------------------------------------------------------------------
\* Properties of streamTranscribe: the manual stop
\* ------------------------------------------------------------------------
\* C26: once Enter or q has been pressed the recorder is not recording and
\* no chunk is added to the client's buffer, and the key press itself
\* requests the final transcription of a non-empty buffer.
C26_ManualStopFinalizes ==
    /\ [](st.manualStop => ~st.recording)
    /\ [][st.manualStop => Len(st'.audioBuffer) <= Len(st.audioBuffer)]_vars
    /\ [][(~st.manualStop /\ st'.manualStop /\ st.audioBuffer # <<>>)
          => Len(st'.issued) = Len(st.issued) + 1]_vars

\* ------------------------------------------------------------------------
\* Properties of the partial timer of StreamingSTTClient
\* ------------------------------------------------------------------------
PartialRequests(reqs) == {r \in reqs : ~r.isFinal}

\* C27: partials are requested periodically: a chunk's arrival requests
\* none by itself, and it does not put off the partial timer that is
\* pending, so that chunks arriving faster than every 500 ms leave the
\* timer to fire.
C27_PartialPeriodic ==
    /\ [][chunkCount' = chunkCount + 1
          => PartialRequests(inflight') = PartialRequests(inflight)]_vars
    /\ [][(chunkCount' = chunkCount + 1 /\ partialTimeout # None)
          => partialTimeout' = partialTimeout]_vars

\* ------------------------------------------------------------------------
\* Properties of the silence finalize of StreamingSTTClient
\* ------------------------------------------------------------------------
\* C28: the silence finalize is armed by speech alone: a silence timer is
\* pending only after a chunk was classified as speech since connect(), and
\* without such a chunk neither the timer nor a chunk's arrival requests a
\* final.
C28_SilenceArmedBySpeech ==
    /\ [](silenceTimeout # None => spoke)
    /\ [][(\E r \in inflight' \ inflight : r.isFinal) => spoke']_vars

\* ------------------------------------------------------------------------
\* Properties of the utterance buffer of StreamingSTTClient
\* ------------------------------------------------------------------------
\* the chunks received since connect() that no 'final' event has covered
FinalizedIds ==
    UNION {AudioIds(events[i].audio) : i \in {k \in DOMAIN events : events[k].type = "final"}}

\* C29: while connected the buffer holds every chunk received since the
\* last 'final' event, and only a 'final' event empties it: the step that
\* emits a 'partial', or none, leaves the buffer as it was.
C29_BufferKeepsChunks ==
    /\ [](isConnected => AudioIds(audioBuffer) = (1 .. chunkCount) \ FinalizedIds)
    /\ [][(isConnected' /\ Len(audioBuffer') < Len(audioBuffer))
          => /\ Len(events') = Len(events) + 1
             /\ events'[Len(events')].type = "final"]_vars

\* ------------------------------------------------------------------------
\* Properties of StreamRecorder's chunking
\* ------------------------------------------------------------------------
RECURSIVE Concat(_)
Concat(chunks) ==
    IF chunks = <<>> THEN <<>> ELSE Head(chunks).data \o Concat(Tail(chunks))

\* C30: every chunk emitted is chunkSizeBytes long, the chunks in order are
\* the first bytes of the stream, the remainder kept after a read is
\* shorter than chunkSizeBytes, and the timestamps never decrease.
C30_ChunksSliceTheStream ==
    LET size == slicer.chunkSizeBytes
        out == slicer.out
    IN  /\ \A i \in DOMAIN out : Len(out[i].data) = size
        /\ Concat(out) = [i \in 1 .. Len(out) * size |-> i]
        /\ Len(slicer.buffer) < size
        /\ \A i, j \in DOMAIN out : i < j => out[i].timestamp <= out[j].timestamp

\* a chunk made of the bytes of two reads has been emitted, after a read
\* that gave two chunks, and a remainder is kept
C30_Witness ==
    /\ \E i \in DOMAIN slicer.out, c \in slicer.cuts :
           LET bytes == {slicer.out[i].data[k] : k \in DOMAIN slicer.out[i].data}
           IN  c \in bytes /\ c + 1 \in bytes
    /\ \E i \in DOMAIN slicer.out :
           i < Len(slicer.out) /\ slicer.out[i].timestamp = slicer.out[i + 1].timestamp
    /\ slicer.buffer # <<>>

\* ------------------------------------------------------------------------
\* Properties of the StreamRecorder's failure handling
\* ------------------------------------------------------------------------
SpawnFailed == Cardinality(mic'.failing) < Cardinality(mic.failing)

ExitedWithFailure ==
    /\ Cardinality(mic'.alive) < Cardinality(mic.alive)
    /\ mic'.lastEvent = "exitFailed"

\* C31: when the capture process could not be spawned, or ended with a
\* failure code, the recorder emits an 'error' event and its recording flag
\* is false afterwards.
C31_FailureIsErrorEvent ==
    [][(SpawnFailed \/ ExitedWithFailure)
           => mic'.errors > mic.errors /\ ~mic'.isRecording]_vars

\* ------------------------------------------------------------------------
\* Properties of the timers armed by a capture
\* ------------------------------------------------------------------------
\* C32: no timer of a finished operation fires: when a 1 s timer of
\* RealtimeScribeClient.close() fires, a close() call is still waiting for
\* it.
C32_NoTimerAfterCompletion ==
    [][scribe'.closeTimers < scribe.closeTimers => scribe.closeWaits > 0]_vars

\* ------------------------------------------------------------------------
\* Properties of listenMode's confirmation step
\* ------------------------------------------------------------------------
\* C33: listenMode asks for confirmation at most twice, the second time
\* only after an 'unclear'; a second 'unclear' cancels; and a command that
\* requires confirmation is executed only if the last confirmation is 'yes'.
C33_RepromptOnce ==
    LET n == Len(listen.confirmations)
    IN  /\ listen.calls <= 2
        /\ n <= listen.calls
        /\ (n = 2 => listen.confirmations[1] = "unclear")
        /\ (n = 2 /\ listen.confirmations[2] = "unclear"
               => ~listen.executed /\ listen.pc \in {"cancelling", "returned", "exited"})
        /\ (listen.executed /\ listen.requiresConfirmation
               => n > 0 /\ listen.confirmations[n] = "yes")
        /\ (listen.executed => listen.pc \in {"executing", "returned", "exited"})

C33_Witness ==
    /\ listen.confirmations = <<"unclear", "yes">>
    /\ listen.executed
    /\ listen.pc = "returned"

\* ------------------------------------------------------------------------
\* Properties of StreamingSTTClient.finalize() and close()
\* ------------------------------------------------------------------------
\* C34: finalize() on an empty buffer returns '' at once: it issues no
\* request, emits no event and leaves the connection flag, the buffer and
\* both timers as they are.
C34_EmptyFinalizeIsNoop ==
    [][finalizeCalls' = finalizeCalls + 1 /\ audioBuffer = <<>>
          => /\ finReturn' = "empty"
             /\ UNCHANGED <<inflight, requestCount, events, isConnected, audioBuffer,
                            silenceTimeout, partialTimeout>>]_vars

C34_Witness ==
    /\ finReturn = "empty"
    /\ finalizeCalls = 1
    /\ isConnected
    /\ silenceTimeout # None
    /\ events # <<>>

\* C38: while the client is closed it emits no event and issues no request,
\* also not for a request that was in flight at close(), and its buffer
\* stays empty.
C38_SilentAfterClose ==
    [][~isConnected /\ ~isConnected'
          => /\ events' = events
             /\ requestCount' = requestCount
             /\ audioBuffer' = <<>>]_vars

\* ------------------------------------------------------------------------
\* Properties of StreamingSTTClient.isSpeech
\* ------------------------------------------------------------------------
RECURSIVE SumOfSquares(_)
SumOfSquares(samples) ==
    IF samples = <<>> THEN 0
    ELSE Head(samples) * Head(samples) + SumOfSquares(Tail(samples))

\* C35: isSpeech answers true exactly when the sum of the squares of the
\* chunk's samples is greater than threshold^2 times their number; it
\* answers false for a chunk of less than 2 bytes and for a chunk of zeros.
C35_IsSpeechIsRmsTest ==
    vad.calls > 0 =>
        LET c == vad.last
            n == Len(c.samples)
        IN  /\ c.result = (n > 0 /\ SumOfSquares(c.samples) > c.threshold * c.threshold * n)
            /\ (Len(c.chunk) < 2 => ~c.result)
            /\ ((\A i \in DOMAIN c.chunk : c.chunk[i] = 0) => ~c.result)

C35_Witness ==
    /\ vad.calls > 0
    /\ vad.last.samples = <<-801, 800>>
    /\ Len(vad.last.chunk) = 5
    /\ vad.last.threshold = SpeechEnergyThreshold
    /\ vad.last.result

\* ------------------------------------------------------------------------
\* Properties of interruptibleSafeSpeak: what null means
\* ------------------------------------------------------------------------
\* C36: when interruptibleSafeSpeak has returned null, the playback it
\* started is no longer running.
C36_NullMeansPlaybackDone ==
    (pc = "returned" /\ outcome = NullResult) => tts # "playing"

\* ------------------------------------------------------------------------
\* Properties of streamTranscribe: termination
\* ------------------------------------------------------------------------
\* an event that ends the capture has happened: a manual stop, the end of
\* the capture process, a recorder or STT error, or a final request
CaptureEnded ==
    \/ st.manualStop
    \/ (st.started = "ok" /\ ~st.alive)
    \/ st.errorEvents > 0
    \/ st.issued # <<>>

\* C37: once an event has ended the capture, the call of streamTranscribe
\* settles.
C37_CallSettles == CaptureEnded ~> (st.settled # "pending")

\* C39: the promise returned by connect() of the WebSocket clients settles
\* and reflects the socket: it is resolved only when the socket has opened,
\* it is rejected once the socket has failed before opening (with or without
\* an onError callback), and a connect() issued while an earlier one is
\* pending creates no second socket.
ResolvedOnlyWhenOpen ==
    \A i \in DOMAIN link.promises :
        link.promises[i].state = "resolved" => link.promises[i].openAtSettle

RejectedWhenSocketFails ==
    \A i \in DOMAIN link.promises :
        (/\ link.promises[i].sock # None
         /\ ~link.promises[i].atOnce
         /\ link.sockets[link.promises[i].sock].failedBeforeOpen)
            => link.promises[i].state = "rejected"

OneSocketPerPendingConnect == link.extraSockets = 0

C39_ConnectReflectsSocket ==
    ResolvedOnlyWhenOpen /\ RejectedWhenSocketFails /\ OneSocketPerPendingConnect

\* C40: getConfirmation resolves once, with what the input that arrived
\* first stands for; an input that arrives after the resolution changes
\* nothing, and after the resolution typedHandler is no listener of stdin.
C40_ResolvesOnceWithFirst ==
    /\ ask.resolveCalls <= 1
    /\ ask.first # "none" =>
          (ask.pc = "resolved" /\ ask.resolveCalls = 1 /\ ask.result = ask.first)
    /\ ask.first = "none" => (ask.resolveCalls = 0 /\ ask.result = "none")
    /\ ask.pc = "resolved" => ~ask.typedHandler

C40_Witness ==
    /\ ask.pc = "resolved"
    /\ ask.late
    /\ ask.voice = "done"
    /\ ask.result \in {"yes", "no"}
    /\ parseConfirmation(ask.heard) # ask.result

====
